---- MODULE Spec2Model ----
(***************************************************************************)
(* django-dynamic-models: the schema objects (ModelSchema and its field    *)
(* rows), the model factory, the model registry, the last-modified cache   *)
(* and the schema editors, as a state machine.                             *)
(*                                                                         *)
(* A step of the machine is one whole call of a public operation: every    *)
(* handler, signal receiver and helper the call runs is part of the step.  *)
(* An operation is written as a function from a state record to a state    *)
(* record; the field err carries a raised exception past the statements    *)
(* that follow the raise.                                                  *)
(***************************************************************************)
EXTENDS Integers, Sequences, FiniteSets, TLC

(***************************************************************************)
(* Bounds of the model.                                                    *)
(***************************************************************************)
NInst == 2          \* ModelSchema instances held by the process
MaxPk == 2          \* schema rows ever inserted
MaxTypes == 5       \* record types ever compiled
NFInst == 1         \* field row instances held by the process
MaxOps == 6         \* operations in one run; the clock reads 1..MaxOps
MaxSteps == 8       \* the same where a save is taken in two steps

(***************************************************************************)
(* Names.  A name is a sequence of characters; the derivations work on the *)
(* characters as the Python code does.                                     *)
(***************************************************************************)
Names == { <<"a">>, <<"b", " ", "c">> }

\* ModelFactory._base_properties: the attributes every compiled type gets.
ReservedNames == { "__module__", "_declared", "_schema", "Meta" }

\* Column names of field rows: one that is free, one that is the name of a
\* base property.
Cols == { "x", "_schema" }
ValidCols == Cols \ ReservedNames

Letters == { "a", "b", "c", "A", "B", "C" }

upper(c) ==
    CASE c = "a" -> "A" [] c = "b" -> "B" [] c = "c" -> "C" [] OTHER -> c

lower(c) ==
    CASE c = "A" -> "a" [] c = "B" -> "b" [] c = "C" -> "c" [] OTHER -> c

\* str.title(): a letter that follows a non-letter (or starts the string) is
\* upper-cased, every other letter is lower-cased.
title(s) ==
    [k \in 1..Len(s) |->
        IF k = 1 \/ s[k - 1] \notin Letters THEN upper(s[k]) ELSE lower(s[k])]

\* str.replace(old, new) for single characters; new = "" removes.
replace(s, old, new) ==
    LET F[k \in 0..Len(s)] ==
            IF k = 0 THEN <<>>
            ELSE IF s[k] = old
                 THEN (IF new = "" THEN F[k - 1] ELSE Append(F[k - 1], new))
                 ELSE Append(F[k - 1], s[k])
    IN F[Len(s)]

\* str.lower()
lower_str(s) == [k \in 1..Len(s) |-> lower(s[k])]

\* str.strip()
RECURSIVE lstrip(_)
lstrip(s) == IF s # <<>> /\ Head(s) = " " THEN lstrip(Tail(s)) ELSE s

RECURSIVE rstrip(_)
rstrip(s) ==
    IF s # <<>> /\ s[Len(s)] = " " THEN rstrip(SubSeq(s, 1, Len(s) - 1)) ELSE s

strip(s) == rstrip(lstrip(s))

\* django.utils.text.slugify: drop what is not a word character, white space
\* or a hyphen, strip, lower-case, and turn each run of hyphens and white
\* space into one hyphen.
WordChars == Letters \cup { "_" }

slugify(s) ==
    LET kept == SelectSeq(s, LAMBDA c : c \in WordChars \cup { " ", "-" })
        low == lower_str(strip(kept))
        F[k \in 0..Len(low)] ==
            IF k = 0 THEN <<>>
            ELSE IF low[k] \in { " ", "-" }
                 THEN (IF k > 1 /\ low[k - 1] \in { " ", "-" }
                       THEN F[k - 1] ELSE Append(F[k - 1], "-"))
                 ELSE Append(F[k - 1], low[k])
    IN F[Len(low)]

\* _AbstractModelSchema.model_name
model_name(name) == replace(title(name), " ", "")

\* _AbstractModelSchema.table_name: app label, class name and slug joined by
\* "_", hyphens replaced by "_", lower-cased.
table_name(name) ==
    lower_str(replace(<<"app", "_", "modelschema", "_">> \o slugify(name), "-", "_"))

\* ModelSchemaChecker._make_cache_key
_make_cache_key(mname) == <<"dynamic_models_schema_", "_">> \o mname

\* The key of Django's app registry: apps.all_models[app_label][name.lower()]
registry_key(mname) == lower_str(mname)

\* cache.cache_key: the prefix and the lower-cased name.
cache_key(mname) == <<"dynamic_models_schema_">> \o lower_str(mname)

\* The names a caller hands to the registry and to the functions of
\* cache.py: the type names of the schemas, as they are and in lower case.
RegistryNames ==
    { model_name(n) : n \in Names } \cup { lower_str(model_name(n)) : n \in Names }

TableNames == { table_name(n) : n \in Names }
CacheKeys == { _make_cache_key(model_name(n)) : n \in Names }
ModuleCacheKeys == { cache_key(m) : m \in RegistryNames }
RegKeys == { registry_key(model_name(n)) : n \in Names }

NoKey == <<>>
NoTable == <<>>
NoName == <<>>

(***************************************************************************)
(* State.                                                                  *)
(***************************************************************************)
VARIABLES
    now,        \* the clock timezone.now() reads; it advances between operations
    rows,       \* schema table: pk -> name of the row, NoName when no row
    nextPk,     \* the pk the next INSERT gets
    frows,      \* field rows: <<pk, col>> -> "none" | "null" | "notnull"
    tables,     \* database: table name -> [exists, cols]
    cache,      \* django cache: key -> timestamp, 0 when no entry
    registry,   \* apps.all_models[app_label]: key -> type id, 0 when absent
    connected,  \* types with check_model_schema connected to pre_save
    types,      \* every record type compiled so far, by id
    inst,       \* ModelSchema instances; slot 0 is the one an operation loads
    finst,      \* field row instances; slot 0 is the one an operation loads
    last,       \* the last operation: what it was and how it ended
    mutF,       \* history: types compiled before a completed field save
    mutR,       \* history: types compiled before a completed rename
    pend        \* per process (schema instance): where it is in a save that
                \* is taken in two steps, NoPend when it is in none

vars == << now, rows, nextPk, frows, tables, cache, registry, connected,
           types, inst, finst, last, mutF, mutR, pend >>

Insts == 1..NInst
FInsts == 1..NFInst
Pks == 1..MaxPk
Nulls == { "null", "notnull" }

\* st: "free" (no instance), "unsaved", "saved", "deleted"
NoInst ==
    [st |-> "free", pk |-> 0, name |-> NoName, prior |-> NoName, model |-> 0,
     ckey |-> NoKey, einit |-> NoTable]

\* ed: the instance's FieldSchemaEditor is constructed; it: the type whose
\* field object is the editor's initial_field.
NoFInst ==
    [st |-> "free", pk |-> 0, col |-> "", owner |-> 0, null |-> "none",
     initial_null |-> FALSE, ed |-> FALSE, it |-> 0]

NoCols == [c \in Cols |-> "none"]

\* kind: "none" | "model" | "field"; seen: what the editor's exists()
\* returned; j: the field row instance the save is of; mi, fi: the instances
\* the operation loaded for itself; mut: the types compiled before the save.
NoPend ==
    [kind |-> "none", seen |-> FALSE, j |-> 0, mi |-> NoInst, fi |-> NoFInst,
     mut |-> {}]

NoLast ==
    [op |-> "init", i |-> 0, j |-> 0, pk |-> 0, col |-> "", arg |-> <<>>,
     t |-> 0, err |-> "none", ret |-> 0, ev |-> <<>>]

Init ==
    /\ now = 1
    /\ rows = [p \in Pks |-> NoName]
    /\ nextPk = 1
    /\ frows = [pc \in Pks \X Cols |-> "none"]
    /\ tables = [t \in TableNames |-> [exists |-> FALSE, cols |-> NoCols]]
    /\ cache = [k \in CacheKeys \cup ModuleCacheKeys |-> 0]
    /\ registry = [k \in RegKeys |-> 0]
    /\ connected = {}
    /\ types = <<>>
    /\ inst = [i \in 0..NInst |-> NoInst]
    /\ finst = [j \in 0..NFInst |-> NoFInst]
    /\ last = NoLast
    /\ mutF = {}
    /\ mutR = {}
    /\ pend = [i \in Insts |-> NoPend]

\* The state an operation starts from.
Cur ==
    [now |-> now, rows |-> rows, nextPk |-> nextPk, frows |-> frows,
     tables |-> tables, cache |-> cache, registry |-> registry,
     connected |-> connected, types |-> types, inst |-> inst,
     finst |-> finst, err |-> "none", ret |-> 0, ev |-> <<>>]

Ok(s) == s.err = "none"
Raise(s, e) == IF Ok(s) THEN [s EXCEPT !.err = e] ELSE s
Bind(s, F(_)) == IF Ok(s) THEN F(s) ELSE s
Event(s, e) == [s EXCEPT !.ev = Append(@, e)]

(***************************************************************************)
(* ModelRegistry (utils.py): Django's app registry under one app label.    *)
(***************************************************************************)
is_registered(s, mname) == s.registry[registry_key(mname)] # 0

\* apps.get_model raises LookupError for a name that is not registered.
registry_get_model(s, mname) ==
    IF is_registered(s, mname)
    THEN [s EXCEPT !.ret = s.registry[registry_key(mname)]]
    ELSE Raise([s EXCEPT !.ret = 0], "LookupError")

\* An unregister_model that passes over a name that is not registered.
registry_unregister_model_silent(s, mname) ==
    IF is_registered(s, mname)
    THEN Event([s EXCEPT !.registry[registry_key(mname)] = 0], "unregister")
    ELSE s

registry_unregister_model(s, mname) ==
    IF is_registered(s, mname)
    THEN Event([s EXCEPT !.registry[registry_key(mname)] = 0], "unregister")
    ELSE Raise(s, "LookupError")

\* ModelBase.__new__ -> apps.register_model: a second type of the same name
\* replaces the first (with a warning); a type whose name differs from the
\* registered one only in case is refused.
register_model(s, id) ==
    LET rk == registry_key(s.types[id].name)
        old == s.registry[rk]
    IN  IF old # 0 /\ s.types[old].name # s.types[id].name
        THEN Raise(s, "RuntimeError")
        ELSE Event([s EXCEPT !.registry[rk] = id], "register")

(***************************************************************************)
(* ModelSchemaChecker (schema.py): the last-modified timestamp of a schema *)
(* in the cache, under a key made once, when the checker is constructed.   *)
(***************************************************************************)
\* _AbstractModelSchema.schema_checker is a cached_property: the first access
\* constructs the checker and fixes its cache key from the name the instance
\* has at that moment.
schema_checker(s, o) ==
    IF s.inst[o].ckey = NoKey
    THEN [s EXCEPT !.inst[o].ckey = _make_cache_key(model_name(s.inst[o].name))]
    ELSE s

get_last(s, key) == s.cache[key]

\* ModelSchemaChecker.update(time)
checker_update(s, key, time) ==
    Event([s EXCEPT !.cache[key] = time], "cache_set")

\* ModelSchemaChecker.delete()
checker_delete(s, key) ==
    Event([s EXCEPT !.cache[key] = 0], "cache_delete")

\* cache.get_last_modified: ret is the entry, 0 (None) when there is none.
get_last_modified(s, mname) == [s EXCEPT !.ret = s.cache[cache_key(mname)]]

\* An update_last_modified that leaves an entry that is there as it is.
update_last_modified_add(s, mname) ==
    IF s.cache[cache_key(mname)] = 0
    THEN Event([s EXCEPT !.cache[cache_key(mname)] = s.now], "cache_set")
    ELSE s

\* cache.update_last_modified: the entry becomes timezone.now().
update_last_modified(s, mname) ==
    Event([s EXCEPT !.cache[cache_key(mname)] = s.now], "cache_set")

\* cache.clear_last_modified
clear_last_modified(s, mname) ==
    Event([s EXCEPT !.cache[cache_key(mname)] = 0], "cache_delete")

\* "last_modified and last_modified <= model._declared": no entry reads as
\* None, which is false.
is_current_model(s, key, t) ==
    get_last(s, key) # 0 /\ get_last(s, key) <= s.types[t].declared

(***************************************************************************)
(* ModelFactory (factory.py).                                              *)
(***************************************************************************)
\* schema.initial_model_name: the type name of the name the instance was
\* constructed, loaded or last saved with (its prior name while a rename is
\* being saved).
initial_model_name(s, o) == model_name(s.inst[o].prior)

\* ModelFactory.unregister_model: LookupError is swallowed.
unregister_model(s, o) ==
    LET swallow(s1) == IF s1.err = "LookupError" THEN s ELSE s1
    IN  swallow(registry_unregister_model(s, initial_model_name(s, o)))

\* ModelFactory.get_registered_model
get_registered_model(s, o) == registry_get_model(s, initial_model_name(s, o))

\* ModelFactory._custom_fields: one field per field row of the schema.
_custom_fields(s, o) ==
    [c \in Cols |->
        IF s.inst[o].pk = 0 THEN "none" ELSE s.frows[<<s.inst[o].pk, c>>]]

\* ModelFactory.get_properties, for an attribute name a of the compiled type
\* t: the custom fields come last and replace a base property of the same
\* name.  "none": the attribute is not a field.
get_properties(s, t, a) ==
    IF a \in Cols THEN s.types[t].fields[a] ELSE "none"

\* _connect_schema_checker / _disconnect_schema_checker
_connect_schema_checker(s, id) == [s EXCEPT !.connected = @ \cup { id }]
_disconnect_schema_checker(s, id) == [s EXCEPT !.connected = @ \ { id }]

\* A make_model that does not connect the pre_save check.
make_model_unconnected(s, o) ==
    LET T(s1) == [name |-> model_name(s1.inst[o].name),
                  declared |-> s1.now,
                  owner |-> o,
                  okey |-> IF o = 0
                           THEN _make_cache_key(model_name(s1.inst[o].name))
                           ELSE NoKey,
                  pk |-> s1.inst[o].pk,
                  table |-> table_name(s1.inst[o].name),
                  fields |-> _custom_fields(s1, o)]
        build(s1) == Event([s1 EXCEPT !.types = Append(@, T(s1))], "compile")
        register(s2) == register_model(s2, Len(s2.types))
        connect(s3) ==
            IF Ok(s3) THEN [s3 EXCEPT !.ret = Len(s3.types)] ELSE s3
    IN  connect(register(build(unregister_model(s, o))))

\* ModelFactory.make_model: unregister, build the type (which registers it),
\* connect the pre_save check.  ret is the new type.
make_model(s, o) ==
    LET T(s1) == [name |-> model_name(s1.inst[o].name),
                  declared |-> s1.now,
                  owner |-> o,
                  okey |-> IF o = 0
                           THEN _make_cache_key(model_name(s1.inst[o].name))
                           ELSE NoKey,
                  pk |-> s1.inst[o].pk,
                  table |-> table_name(s1.inst[o].name),
                  fields |-> _custom_fields(s1, o)]
        build(s1) == Event([s1 EXCEPT !.types = Append(@, T(s1))], "compile")
        register(s2) == register_model(s2, Len(s2.types))
        connect(s3) ==
            IF Ok(s3)
            THEN [_connect_schema_checker(s3, Len(s3.types))
                      EXCEPT !.ret = Len(s3.types)]
            ELSE s3
    IN  connect(register(build(unregister_model(s, o))))

\* _AbstractModelSchema.is_current_model(model), asked of instance o.
schema_is_current_model(s, o, t) ==
    is_current_model(s, s.inst[o].ckey, t)

\* ModelFactory.get_model
get_model(s, o) ==
    LET decide(s1) ==
            IF ~Ok(s1) THEN s1
            ELSE IF s1.ret # 0 /\ schema_is_current_model(s1, o, s1.ret)
                 THEN s1
                 ELSE make_model(s1, o)
        registered(s1) == IF Ok(s1) THEN schema_checker(s1, o) ELSE s1
    IN  decide(registered(get_registered_model(s, o)))

\* ModelFactory.destroy_model
destroy_model(s, o) ==
    LET destroy(s1) ==
            IF ~Ok(s1) THEN s1
            ELSE IF s1.ret # 0
                 THEN unregister_model(_disconnect_schema_checker(s1, s1.ret), o)
                 ELSE s1
    IN  destroy(get_registered_model(s, o))

(***************************************************************************)
(* _AbstractModelSchema (models.py).                                       *)
(***************************************************************************)
\* as_model: the cached type when there is one and it is current, else a
\* new one from the factory.
as_model(s, o) ==
    LET keep(s2) ==
            IF Ok(s2) THEN [s2 EXCEPT !.inst[o].model = s2.ret] ELSE s2
        decide(s1) ==
            IF s1.inst[o].model # 0
               /\ schema_is_current_model(s1, o, s1.inst[o].model)
            THEN [s1 EXCEPT !.ret = s1.inst[o].model]
            ELSE keep(make_model(s1, o))
    IN  decide(IF s.inst[o].model # 0 THEN schema_checker(s, o) ELSE s)

\* get_model and as_model while the cache's backing store is unavailable.
\* ModelSchemaChecker.get_last is "cache.get(self.cache_key)" with nothing
\* around it, and what cache.get does then is the backend's: out = "miss",
\* it swallows the failure and returns None; out = "raise", it raises the
\* failure.
outage_is_current_model(s, out) ==
    IF out = "raise" THEN Raise(s, "ConnectionError") ELSE [s EXCEPT !.ret = 0]

get_model_outage(s, o, out) ==
    LET decide(s1) ==
            IF ~Ok(s1) THEN s1
            ELSE Bind(outage_is_current_model(s1, out),
                      LAMBDA s2 : make_model(s2, o))
        registered(s1) == IF Ok(s1) THEN schema_checker(s1, o) ELSE s1
    IN  decide(registered(get_registered_model(s, o)))

as_model_outage(s, o, out) ==
    LET keep(s2) ==
            IF Ok(s2) THEN [s2 EXCEPT !.inst[o].model = s2.ret] ELSE s2
    IN  IF s.inst[o].model # 0
        THEN Bind(outage_is_current_model(schema_checker(s, o), out),
                  LAMBDA s2 : keep(make_model(s2, o)))
        ELSE keep(make_model(s, o))

(***************************************************************************)
(* The database the schema editors act on (connection.schema_editor and    *)
(* connection.introspection).  A command the database refuses raises.      *)
(***************************************************************************)
db_table_exists(s, tn) == s.tables[tn].exists

db_create_model(s, t) ==
    LET tn == s.types[t].table
    IN  IF db_table_exists(s, tn) THEN Raise(s, "DatabaseError")
        ELSE Event([s EXCEPT !.tables[tn] =
                        [exists |-> TRUE, cols |-> s.types[t].fields]],
                   "create_table")

db_delete_model(s, t) ==
    LET tn == s.types[t].table
    IN  IF ~db_table_exists(s, tn) THEN Raise(s, "DatabaseError")
        ELSE Event([s EXCEPT !.tables[tn] =
                        [exists |-> FALSE, cols |-> NoCols]],
                   "drop_table")

db_alter_db_table(s, old, new) ==
    IF old = new THEN s
    ELSE IF ~db_table_exists(s, old) \/ db_table_exists(s, new)
         THEN Raise(s, "DatabaseError")
         ELSE Event([s EXCEPT !.tables[new] = s.tables[old],
                              !.tables[old] =
                                  [exists |-> FALSE, cols |-> NoCols]],
                    "rename_table")

\* A field object is <<type, column>>: two field objects are equal when they
\* are the same object (Field.__eq__ compares creation counters), and each
\* compiled type constructs its own.
field_def(s, f) == s.types[f[1]].fields[f[2]]

db_add_field(s, t, f) ==
    LET tn == s.types[t].table
    IN  IF ~db_table_exists(s, tn) \/ s.tables[tn].cols[f[2]] # "none"
        THEN Raise(s, "DatabaseError")
        ELSE Event([s EXCEPT !.tables[tn].cols[f[2]] = field_def(s, f)],
                   "add_column")

db_remove_field(s, t, f) ==
    LET tn == s.types[t].table
    IN  IF ~db_table_exists(s, tn) \/ s.tables[tn].cols[f[2]] = "none"
        THEN Raise(s, "DatabaseError")
        ELSE Event([s EXCEPT !.tables[tn].cols[f[2]] = "none"],
                   "drop_column")

\* alter_field issues nothing when the two definitions do not differ.
db_alter_field(s, t, old, new) ==
    LET tn == s.types[t].table
    IN  IF field_def(s, old) = field_def(s, new) THEN s
        ELSE IF ~db_table_exists(s, tn) \/ s.tables[tn].cols[new[2]] = "none"
             THEN Raise(s, "DatabaseError")
             ELSE Event([s EXCEPT !.tables[tn].cols[new[2]] = field_def(s, new)],
                        "alter_column")

(***************************************************************************)
(* ModelSchemaEditor (schema.py).                                          *)
(***************************************************************************)
\* _AbstractModelSchema.schema_editor is a cached_property: the first access
\* constructs the editor, and BaseSchemaEditor.__init__ -> set_initial reads
\* the table name the instance has at that moment.
schema_editor(s, o) ==
    IF s.inst[o].einit = NoTable
    THEN [s EXCEPT !.inst[o].einit = table_name(s.inst[o].name)]
    ELSE s

model_editor_create(s, o) ==
    Bind(as_model(s, o), LAMBDA s1 : db_create_model(s1, s1.ret))

model_editor_alter(s, o) ==
    Bind(as_model(s, o),
         LAMBDA s1 : db_alter_db_table(s1, s1.inst[o].einit,
                                       table_name(s1.inst[o].name)))

model_editor_drop(s, o) ==
    Bind(as_model(schema_editor(s, o), o),
         LAMBDA s1 : db_delete_model(s1, s1.ret))

\* BaseSchemaEditor.update that never alters.
model_editor_update_create_only(s, o) ==
    LET update(s1) ==
            IF ~db_table_exists(s1, s1.inst[o].einit)
            THEN model_editor_create(s1, o)
            ELSE s1
    IN  update(schema_editor(s, o))

\* BaseSchemaEditor.update that looks at is_changed before exists: a table
\* is created only for a changed name.
model_editor_update_changed_first(s, o) ==
    LET update(s1) ==
            IF s1.inst[o].einit # table_name(s1.inst[o].name)
            THEN model_editor_create(s1, o)
            ELSE s1
    IN  update(schema_editor(s, o))

\* BaseSchemaEditor.update with ModelSchemaEditor's exists / is_changed.
model_editor_update(s, o) ==
    LET update(s1) ==
            IF ~db_table_exists(s1, s1.inst[o].einit)
            THEN model_editor_create(s1, o)
            ELSE IF s1.inst[o].einit # table_name(s1.inst[o].name)
                 THEN Bind(model_editor_alter(s1, o),
                           LAMBDA s2 : [s2 EXCEPT !.inst[o].einit =
                                            table_name(s2.inst[o].name)])
                 ELSE s1
    IN  update(schema_editor(s, o))

(***************************************************************************)
(* FieldSchemaEditor (schema.py), held by a field row instance j whose     *)
(* model is the schema instance finst[j].owner.                            *)
(***************************************************************************)
\* FieldSchemaEditor.get_field: the field object of the column on the type
\* the schema's as_model() returns; ret is that type.
get_field(s, j) ==
    LET look(s1) ==
            IF Ok(s1) /\ s1.types[s1.ret].fields[s1.finst[j].col] = "none"
            THEN Raise(s1, "FieldDoesNotExist")
            ELSE s1
    IN  look(as_model(s, s.finst[j].owner))

\* DynamicModelField.schema_editor is a cached_property: the first access
\* constructs the editor, and set_initial keeps the field object of then.
field_schema_editor(s, j) ==
    IF s.finst[j].ed THEN s
    ELSE Bind(get_field(s, j),
              LAMBDA s1 : [s1 EXCEPT !.finst[j].ed = TRUE,
                                     !.finst[j].it = s1.ret])

\* utils.db_table_has_field(schema.table_name, initial_name)
field_editor_exists(s, j) ==
    LET tn == table_name(s.inst[s.finst[j].owner].name)
    IN  db_table_exists(s, tn) /\ s.tables[tn].cols[s.finst[j].col] # "none"

field_editor_create(s, j) ==
    Bind(as_model(s, s.finst[j].owner),
         LAMBDA s1 : db_add_field(s1, s1.ret,
                                  <<s1.finst[j].it, s1.finst[j].col>>))

field_editor_alter(s, j) ==
    Bind(get_field(s, j),
         LAMBDA s1 : db_alter_field(s1, s1.ret,
                                    <<s1.finst[j].it, s1.finst[j].col>>,
                                    <<s1.ret, s1.finst[j].col>>))

field_editor_drop(s, j) ==
    Bind(get_field(s, j),
         LAMBDA s1 : db_remove_field(s1, s1.ret, <<s1.ret, s1.finst[j].col>>))

\* FieldSchemaEditor.is_changed: "self.initial_field == self.get_field()".
\* ret is 1 when the two are the same field object, else 0.
field_is_changed(s, j) ==
    Bind(get_field(s, j),
         LAMBDA s1 : [s1 EXCEPT !.ret =
                          IF s1.finst[j].it = s1.ret THEN 1 ELSE 0])

\* FieldSchemaEditor.set_initial
field_set_initial(s, j) ==
    Bind(get_field(s, j), LAMBDA s1 : [s1 EXCEPT !.finst[j].it = s1.ret])

\* BaseSchemaEditor.update on a FieldSchemaEditor
field_editor_update(s, j) ==
    LET changed(s1) ==
            IF Ok(s1) /\ s1.ret = 1
            THEN Bind(field_editor_alter(s1, j),
                      LAMBDA s2 : field_set_initial(s2, j))
            ELSE s1
    IN  IF ~field_editor_exists(s, j) THEN field_editor_create(s, j)
        ELSE changed(field_is_changed(s, j))

(***************************************************************************)
(* DynamicModelField (models.py).                                          *)
(***************************************************************************)
\* _check_null_is_valid
_check_null_is_valid(s, j) ==
    IF s.finst[j].initial_null /\ s.finst[j].null = "notnull"
    THEN Raise(s, "NullFieldChangedError")
    ELSE s

\* models.Model.save of the field row: INSERT (refused when the schema
\* already has a row for the column, unique_together) or UPDATE.
field_row_save(s, j) ==
    LET f == s.finst[j]
        k == <<f.pk, f.col>>
    IN  IF f.st = "unsaved" /\ s.frows[k] # "none"
        THEN Raise(s, "IntegrityError")
        ELSE Event([s EXCEPT !.frows[k] = f.null, !.finst[j].st = "saved"],
                   "field_row_saved")

\* DynamicModelField.update_schema
update_schema(s, j) ==
    LET update(s1) ==
            checker_update(s1, s1.inst[s1.finst[j].owner].ckey, s1.now)
    IN  Bind(field_schema_editor(
                 update(schema_checker(s, s.finst[j].owner)), j),
             LAMBDA s3 : field_editor_update(s3, j))

\* DynamicModelField.save
field_save(s, j) ==
    Bind(Bind(_check_null_is_valid(s, j), LAMBDA s1 : field_row_save(s1, j)),
         LAMBDA s2 : update_schema(s2, j))

\* drop_table_field (pre_delete of a field row): drop the column, then
\* "instance.schema_checker.update()": update() requires a time.
drop_table_field(s, j) ==
    Bind(Bind(field_schema_editor(s, j), LAMBDA s1 : field_editor_drop(s1, j)),
         LAMBDA s2 : Raise(schema_checker(s2, s2.finst[j].owner), "TypeError"))

(***************************************************************************)
(* Whole operations on a schema.                                           *)
(***************************************************************************)
\* An instance read from the row p: what a query or a generic foreign key
\* hands back.
loaded(s, p) ==
    [st |-> "saved", pk |-> p, name |-> s.rows[p], prior |-> s.rows[p],
     model |-> 0, ckey |-> NoKey, einit |-> NoTable]

\* A field row instance read from the row <<p, c>>; its model is instance o.
loaded_field(s, p, c, o) ==
    [st |-> "saved", pk |-> p, col |-> c, owner |-> o,
     null |-> s.frows[<<p, c>>],
     initial_null |-> (s.frows[<<p, c>>] = "null"), ed |-> FALSE, it |-> 0]

\* models.Model.save of the schema row: the name is unique.
row_save(s, i) ==
    LET n == s.inst[i].name
        p == IF s.inst[i].pk = 0 THEN s.nextPk ELSE s.inst[i].pk
    IN  IF \E q \in Pks : q # p /\ s.rows[q] = n
        THEN Raise(s, "IntegrityError")
        ELSE Event([s EXCEPT !.rows[p] = n,
                             !.nextPk = IF s.inst[i].pk = 0 THEN @ + 1 ELSE @,
                             !.inst[i].pk = p,
                             !.inst[i].st = "saved"],
                   IF s.inst[i].pk = 0 THEN "row_inserted" ELSE "row_updated")

\* A save that runs the schema editor before it writes the timestamp.
save_editor_before_checker(s, i, n) ==
    LET s0 == [s EXCEPT !.inst[i].name = n]
        s1 == row_save(s0, i)
        s2 == Bind(s1, LAMBDA x : model_editor_update(x, i))
        s3 == Bind(s2, LAMBDA x : schema_checker(x, i))
        s4 == Bind(s3, LAMBDA x : checker_update(x, x.inst[i].ckey, x.now))
    IN  Bind(s4, LAMBDA x : [x EXCEPT !.inst[i].prior = x.inst[i].name])

\* _AbstractModelSchema.save, after the caller set the name to n.
save(s, i, n) ==
    LET s0 == [s EXCEPT !.inst[i].name = n]
        s1 == row_save(s0, i)
        s2 == Bind(s1, LAMBDA x : schema_checker(x, i))
        s3 == Bind(s2, LAMBDA x : checker_update(x, x.inst[i].ckey, x.now))
        s4 == Bind(s3, LAMBDA x : model_editor_update(x, i))
    IN  Bind(s4, LAMBDA x : [x EXCEPT !.inst[i].prior = x.inst[i].name])

\* drop_model_table (pre_delete of a schema)
drop_model_table(s, i) ==
    LET s1 == model_editor_drop(s, i)
        s2 == Bind(s1, LAMBDA x : schema_checker(x, i))
        s3 == Bind(s2, LAMBDA x : checker_delete(x, x.inst[i].ckey))
    IN  Bind(s3, LAMBDA x : destroy_model(x, i))

\* The delete of one field row in the cascade: the row is read into a fresh
\* instance, whose model is read afresh too, and pre_delete runs on it.
field_row_delete(s, p, c) ==
    LET s0 == [s EXCEPT !.inst[0] = loaded(s, p),
                        !.finst[0] = loaded_field(s, p, c, 0)]
    IN  Bind(drop_table_field(s0, 0),
             LAMBDA x : Event([x EXCEPT !.frows[<<p, c>>] = "none"],
                              "field_row_deleted"))

RECURSIVE delete_field_rows(_, _, _)
delete_field_rows(s, p, cs) ==
    IF cs = {} \/ ~Ok(s) THEN s
    ELSE LET c == CHOOSE x \in cs : TRUE
         IN  delete_field_rows(field_row_delete(s, p, c), p, cs \ { c })

\* drop_relation_by_model: the field rows of the schema are deleted.
drop_relation_by_model(s, i) ==
    LET p == s.inst[i].pk
    IN  delete_field_rows(s, p, { c \in Cols : s.frows[<<p, c>>] # "none" })

\* A delete runs in a transaction.  When it raises, the rows are as before;
\* whether the tables are as before depends on the database (rb).
atomic(s0, s, rb) ==
    IF Ok(s) THEN s
    ELSE [s EXCEPT !.rows = s0.rows, !.frows = s0.frows,
                   !.tables = IF rb THEN s0.tables ELSE @]

\* A delete that removes the row before it runs the pre_delete receivers.
delete_row_first(s, i, rb) ==
    LET s1 == Event([s EXCEPT !.rows[s.inst[i].pk] = NoName,
                              !.inst[i].st = "deleted"], "row_deleted")
        s2 == Bind(s1, LAMBDA x : drop_model_table(x, i))
        s3 == Bind(s2, LAMBDA x : drop_relation_by_model(x, i))
    IN  atomic(s, s3, rb)

\* models.Model.delete of a schema: pre_delete receivers, then the row.
delete(s, i, rb) ==
    LET s1 == drop_model_table(s, i)
        s2 == Bind(s1, LAMBDA x : drop_relation_by_model(x, i))
        s3 == Bind(s2, LAMBDA x :
                  Event([x EXCEPT !.rows[x.inst[i].pk] = NoName,
                                  !.inst[i].st = "deleted"], "row_deleted"))
    IN  atomic(s, s3, rb)

\* models.Model.delete of a field row.
field_delete(s, j, rb) ==
    LET s1 == drop_table_field(s, j)
        s2 == Bind(s1, LAMBDA x :
                  Event([x EXCEPT !.frows[<<x.finst[j].pk, x.finst[j].col>>] = "none",
                                  !.finst[j].st = "deleted"],
                        "field_row_deleted"))
    IN  atomic(s, s2, rb)

\* _AbstractModelSchema.add_field: objects.create constructs and saves.
add_field(s, i, c, nl, j) ==
    LET created(s1) == IF Ok(s1) THEN s1 ELSE [s1 EXCEPT !.finst[j] = NoFInst]
    IN  created(field_save(
            [s EXCEPT !.finst[j] =
                 [st |-> "unsaved", pk |-> s.inst[i].pk, col |-> c,
                  owner |-> i, null |-> nl, initial_null |-> (nl = "null"),
                  ed |-> FALSE, it |-> 0]], j))

\* _AbstractModelSchema.get_field: the row read into a fresh instance.
schema_get_field(s, i, c) ==
    [s EXCEPT !.inst[0] = loaded(s, s.inst[i].pk),
              !.finst[0] = loaded_field(s, s.inst[i].pk, c, 0)]

\* _AbstractModelSchema.update_field
update_field(s, i, c, nl) ==
    LET set(s0) == [s0 EXCEPT !.finst[0].null = nl]
    IN  field_save(set(schema_get_field(s, i, c)), 0)

\* _AbstractModelSchema.remove_field
remove_field(s, i, c, rb) == field_delete(schema_get_field(s, i, c), 0, rb)

\* The cache key under which type t's own schema (sender._schema) looks up
\* its timestamp: the key its checker has, or gets on its first access.
schema_key(s, t) ==
    LET o == s.types[t].owner
    IN  IF o = 0 THEN s.types[t].okey
        ELSE IF s.inst[o].ckey # NoKey THEN s.inst[o].ckey
        ELSE _make_cache_key(model_name(s.inst[o].name))

\* check_model_schema (pre_save of a record of type t)
check_model_schema(s, t) ==
    LET check(s1) ==
            IF t \notin s1.connected THEN s
            ELSE IF get_properties(s, t, "_schema") # "none"
                 THEN Raise(s, "AttributeError")
            ELSE IF ~is_current_model(s1, schema_key(s1, t), t)
                 THEN Raise(s1, "OutdatedModelError")
                 ELSE s1
    IN  check(IF s.types[t].owner # 0
              THEN schema_checker(s, s.types[t].owner) ELSE s)

\* INSERT of a record of type t: the table must have every column of the
\* type, and must not require a column the type does not have.
db_insert(s, t) ==
    LET tn == s.types[t].table
        f == s.types[t].fields
    IN  IF /\ db_table_exists(s, tn)
           /\ \A c \in Cols :
                /\ f[c] # "none" => s.tables[tn].cols[c] # "none"
                /\ s.tables[tn].cols[c] = "notnull" => f[c] # "none"
        THEN Event(s, "record_written")
        ELSE Raise(s, "DatabaseError")

\* Saving a new record through type t.
write_record(s, t) ==
    Bind(check_model_schema(s, t), LAMBDA x : db_insert(x, t))

(***************************************************************************)
(* The state machine.                                                      *)
(***************************************************************************)
\* The types compiled so far for schema p.
older_types(p) == { t \in 1..Len(types) : types[t].pk = p }

\* The end of a step: its result s becomes the state, the instances the
\* step loaded for itself are gone.
End(s, l, mf, mr) ==
    /\ Len(s.types) <= MaxTypes
    /\ now' = s.now + 1
    /\ rows' = s.rows
    /\ nextPk' = s.nextPk
    /\ frows' = s.frows
    /\ tables' = s.tables
    /\ cache' = s.cache
    /\ registry' = s.registry
    /\ connected' = s.connected
    /\ types' = s.types
    /\ inst' = [s.inst EXCEPT ![0] = NoInst]
    /\ finst' = [s.finst EXCEPT ![0] = NoFInst]
    /\ last' = [l EXCEPT !.err = s.err, !.ret = s.ret, !.ev = s.ev]
    /\ mutF' = mutF \cup (IF Ok(s) THEN mf ELSE {})
    /\ mutR' = mutR \cup (IF Ok(s) THEN mr ELSE {})

\* The end of an operation that ran from its start to its end.
Done(s, l, mf, mr) ==
    /\ now <= MaxOps
    /\ End(s, l, mf, mr)
    /\ pend' = pend

\* Held instances whose row is there.
Live(i) == inst[i].st = "saved" /\ rows[inst[i].pk] # NoName
FLive(j) ==
    /\ finst[j].st = "saved"
    /\ frows[<<finst[j].pk, finst[j].col>>] # "none"
    /\ rows[finst[j].pk] # NoName

\* ModelSchema(name=n)
New(i, n) ==
    /\ inst[i].st = "free"
    /\ \A k \in Insts : k < i => inst[k].st # "free"
    /\ Done([Cur EXCEPT !.inst[i] =
                 [NoInst EXCEPT !.st = "unsaved", !.name = n, !.prior = n]],
            [NoLast EXCEPT !.op = "New", !.i = i, !.arg = n], {}, {})

\* ModelSchema.objects.get(pk=p)
Load(i, p) ==
    /\ inst[i].st = "free"
    /\ \A k \in Insts : k < i => inst[k].st # "free"
    /\ rows[p] # NoName
    /\ Done([Cur EXCEPT !.inst[i] = loaded(Cur, p)],
            [NoLast EXCEPT !.op = "Load", !.i = i, !.pk = p], {}, {})

\* schema.save() of a new schema, under the name it was constructed with;
\* schema.name = n; schema.save() of a persisted one
Save(i, n) ==
    /\ inst[i].st = "unsaved" \/ Live(i)
    /\ inst[i].st = "unsaved" => nextPk <= MaxPk /\ n = inst[i].name
    /\ LET end(r) ==
               Done(r, [NoLast EXCEPT !.op = "Save", !.i = i, !.arg = n,
                                      !.pk = r.inst[i].pk],
                    {},
                    IF inst[i].pk # 0 /\ rows[inst[i].pk] # n
                    THEN older_types(inst[i].pk) ELSE {})
       IN  end(save(Cur, i, n))

\* schema.as_model()
AsModel(i) ==
    /\ Live(i)
    /\ Done(as_model(Cur, i),
            [NoLast EXCEPT !.op = "AsModel", !.i = i, !.pk = inst[i].pk],
            {}, {})

\* ModelFactory(schema).get_model(), of a persisted or a new schema
GetModel(i) ==
    /\ inst[i].st = "unsaved" \/ Live(i)
    /\ Done(get_model(Cur, i),
            [NoLast EXCEPT !.op = "GetModel", !.i = i, !.pk = inst[i].pk],
            {}, {})

\* schema.delete()
Delete(i) ==
    /\ Live(i)
    /\ \E rb \in BOOLEAN :
         Done(delete(Cur, i, rb),
              [NoLast EXCEPT !.op = "Delete", !.i = i, !.pk = inst[i].pk],
              {}, {})

\* schema.add_field(field, null=nl); the caller keeps the result (j > 0) or
\* does not (j = 0).
AddField(i, c, nl, j) ==
    /\ Live(i)
    /\ j = 0 \/ finst[j].st = "free"
    /\ Done(add_field(Cur, i, c, nl, j),
            [NoLast EXCEPT !.op = "AddField", !.i = i, !.j = j,
                           !.pk = inst[i].pk, !.col = c, !.arg = nl],
            older_types(inst[i].pk), {})

\* schema.update_field(field, null=nl)
UpdateField(i, c, nl) ==
    /\ Live(i)
    /\ frows[<<inst[i].pk, c>>] # "none"
    /\ Done(update_field(Cur, i, c, nl),
            [NoLast EXCEPT !.op = "UpdateField", !.i = i, !.pk = inst[i].pk,
                           !.col = c, !.arg = nl],
            older_types(inst[i].pk), {})

\* schema.remove_field(field)
RemoveField(i, c) ==
    /\ Live(i)
    /\ frows[<<inst[i].pk, c>>] # "none"
    /\ \E rb \in BOOLEAN :
         Done(remove_field(Cur, i, c, rb),
              [NoLast EXCEPT !.op = "RemoveField", !.i = i,
                             !.pk = inst[i].pk, !.col = c],
              {}, {})

\* field.null = nl; field.save() on a field row instance the caller kept
SaveField(j, nl) ==
    /\ FLive(j)
    /\ Live(finst[j].owner)
    /\ Done(field_save([Cur EXCEPT !.finst[j].null = nl], j),
            [NoLast EXCEPT !.op = "SaveField", !.j = j, !.pk = finst[j].pk,
                           !.col = finst[j].col, !.arg = nl],
            older_types(finst[j].pk), {})

\* field.delete() on a field row instance the caller kept
DeleteField(j) ==
    /\ FLive(j)
    /\ Live(finst[j].owner)
    /\ \E rb \in BOOLEAN :
         Done(field_delete(Cur, j, rb),
              [NoLast EXCEPT !.op = "DeleteField", !.j = j,
                             !.pk = finst[j].pk, !.col = finst[j].col],
              {}, {})

\* T.objects.create(...) through a type t the caller kept
WriteRecord(t) ==
    /\ t \in 1..Len(types)
    /\ Done(write_record(Cur, t),
            [NoLast EXCEPT !.op = "WriteRecord", !.t = t, !.pk = types[t].pk],
            {}, {})

Next ==
    \/ \E i \in Insts, n \in Names : New(i, n)
    \/ \E i \in Insts, p \in Pks : Load(i, p)
    \/ \E i \in Insts, n \in Names : Save(i, n)
    \/ \E i \in Insts : AsModel(i)
    \/ \E i \in Insts : GetModel(i)
    \/ \E i \in Insts : Delete(i)
    \/ \E i \in Insts, c \in ValidCols, nl \in Nulls, j \in 0..NFInst :
         AddField(i, c, nl, j)
    \/ \E i \in Insts, c \in ValidCols, nl \in Nulls : UpdateField(i, c, nl)
    \/ \E i \in Insts, c \in ValidCols : RemoveField(i, c)
    \/ \E j \in FInsts, nl \in Nulls : SaveField(j, nl)
    \/ \E j \in FInsts : DeleteField(j)
    \/ \E t \in 1..MaxTypes : WriteRecord(t)

Spec == Init /\ [][Next]_vars

\* The same editor's update() once more, directly after the calls that led
\* to s.
second_model_update(s, i) ==
    Bind(s, LAMBDA s1 : model_editor_update(Event(s1, "second_update"), i))

second_field_update(s, j) ==
    Bind(s, LAMBDA s1 : field_editor_update(Event(s1, "second_update"), j))

\* schema.name = n; schema.save(); schema.schema_editor.update()
SaveUpdate(i, n) ==
    /\ inst[i].st = "unsaved" \/ Live(i)
    /\ inst[i].st = "unsaved" => nextPk <= MaxPk /\ n = inst[i].name
    /\ LET end(r) ==
               Done(r, [NoLast EXCEPT !.op = "SaveUpdate", !.i = i, !.arg = n,
                                      !.pk = r.inst[i].pk],
                    {},
                    IF inst[i].pk # 0 /\ rows[inst[i].pk] # n
                    THEN older_types(inst[i].pk) ELSE {})
       IN  end(second_model_update(save(Cur, i, n), i))

\* schema.schema_editor.update(), twice
EditorUpdateTwice(i) ==
    /\ Live(i)
    /\ Done(second_model_update(model_editor_update(Cur, i), i),
            [NoLast EXCEPT !.op = "EditorUpdateTwice", !.i = i,
                           !.pk = inst[i].pk],
            {}, {})

\* f = schema.add_field(field, null=nl); f.schema_editor.update()
AddFieldUpdate(i, c, nl, j) ==
    /\ Live(i)
    /\ finst[j].st = "free"
    /\ Done(second_field_update(add_field(Cur, i, c, nl, j), j),
            [NoLast EXCEPT !.op = "AddFieldUpdate", !.i = i, !.j = j,
                           !.pk = inst[i].pk, !.col = c, !.arg = nl],
            older_types(inst[i].pk), {})

\* field.null = nl; field.save(); field.schema_editor.update()
SaveFieldUpdate(j, nl) ==
    /\ FLive(j)
    /\ Live(finst[j].owner)
    /\ Done(second_field_update(
                field_save([Cur EXCEPT !.finst[j].null = nl], j), j),
            [NoLast EXCEPT !.op = "SaveFieldUpdate", !.j = j,
                           !.pk = finst[j].pk, !.col = finst[j].col,
                           !.arg = nl],
            older_types(finst[j].pk), {})

\* field.schema_editor.update(), twice
FieldEditorUpdateTwice(j) ==
    /\ FLive(j)
    /\ Live(finst[j].owner)
    /\ Done(second_field_update(
                Bind(field_schema_editor(Cur, j),
                     LAMBDA s1 : field_editor_update(s1, j)), j),
            [NoLast EXCEPT !.op = "FieldEditorUpdateTwice", !.j = j,
                           !.pk = finst[j].pk, !.col = finst[j].col],
            {}, {})

\* The operations on schemas and field rows, with calls of an editor's
\* update() that directly follow a call of the same editor's update().
NextEditor ==
    \/ \E i \in Insts, n \in Names : New(i, n)
    \/ \E i \in Insts, p \in Pks : Load(i, p)
    \/ \E i \in Insts, n \in Names : Save(i, n)
    \/ \E i \in Insts : AsModel(i)
    \/ \E i \in Insts : Delete(i)
    \/ \E i \in Insts, c \in ValidCols, nl \in Nulls, j \in 0..NFInst :
         AddField(i, c, nl, j)
    \/ \E i \in Insts, c \in ValidCols, nl \in Nulls : UpdateField(i, c, nl)
    \/ \E i \in Insts, c \in ValidCols : RemoveField(i, c)
    \/ \E i \in Insts, n \in Names : SaveUpdate(i, n)
    \/ \E i \in Insts : EditorUpdateTwice(i)
    \/ \E i \in Insts, c \in ValidCols, nl \in Nulls, j \in FInsts :
         AddFieldUpdate(i, c, nl, j)
    \/ \E j \in FInsts, nl \in Nulls : SaveFieldUpdate(j, nl)
    \/ \E j \in FInsts : FieldEditorUpdateTwice(j)

SpecEditor == Init /\ [][NextEditor]_vars

\* The entry under key k leaves the cache: its timeout (the one given to
\* cache.set) has passed, or the cache was cleared.
Expire(k) ==
    /\ cache[k] # 0
    /\ Done([Cur EXCEPT !.cache[k] = 0],
            [NoLast EXCEPT !.op = "Expire", !.arg = k], {}, {})

\* ModelFactory(schema).get_model() and schema.as_model() during an outage
\* of the cache's backing store
GetModelOutage(i, out) ==
    /\ Live(i)
    /\ Done(get_model_outage(Cur, i, out),
            [NoLast EXCEPT !.op = "GetModelOutage", !.i = i,
                           !.pk = inst[i].pk, !.arg = out], {}, {})

AsModelOutage(i, out) ==
    /\ Live(i)
    /\ Done(as_model_outage(Cur, i, out),
            [NoLast EXCEPT !.op = "AsModelOutage", !.i = i,
                           !.pk = inst[i].pk, !.arg = out], {}, {})

\* The operations of one schema instance, with a cache that may lose its
\* entries or be unavailable.
NextCache ==
    \/ \E n \in Names : New(1, n)
    \/ \E n \in Names : Save(1, n)
    \/ AsModel(1)
    \/ GetModel(1)
    \/ \E c \in ValidCols, nl \in Nulls : AddField(1, c, nl, 0)
    \/ \E t \in 1..MaxTypes : WriteRecord(t)
    \/ \E k \in CacheKeys : Expire(k)
    \/ \E out \in { "miss", "raise" } : GetModelOutage(1, out)
    \/ \E out \in { "miss", "raise" } : AsModelOutage(1, out)

SpecCache == Init /\ [][NextCache]_vars

\* ModelRegistry(app_label).unregister_model(m)
Unregister(m) ==
    /\ m \in RegistryNames
    /\ Done(registry_unregister_model(Cur, m),
            [NoLast EXCEPT !.op = "Unregister", !.arg = m], {}, {})

\* ModelFactory(schema).make_model(), of a persisted or a new schema
MakeModel(i) ==
    /\ inst[i].st = "unsaved" \/ Live(i)
    /\ Done(make_model(Cur, i),
            [NoLast EXCEPT !.op = "MakeModel", !.i = i, !.pk = inst[i].pk],
            {}, {})

\* ModelFactory(schema).destroy_model(), of a persisted or a new schema
DestroyModel(i) ==
    /\ inst[i].st = "unsaved" \/ Live(i)
    /\ Done(destroy_model(Cur, i),
            [NoLast EXCEPT !.op = "DestroyModel", !.i = i, !.pk = inst[i].pk],
            {}, {})

\* The operations that compile types, with direct calls of the factory's
\* make_model and destroy_model and of the registry.
NextRegistry ==
    \/ \E i \in Insts, n \in Names : New(i, n)
    \/ \E i \in Insts, n \in Names : Save(i, n)
    \/ \E i \in Insts : AsModel(i)
    \/ \E i \in Insts : GetModel(i)
    \/ \E i \in Insts : MakeModel(i)
    \/ \E i \in Insts : DestroyModel(i)
    \/ \E m \in RegistryNames : Unregister(m)

SpecRegistry == Init /\ [][NextRegistry]_vars

\* The functions of cache.py, called directly.
GetLastModified(m) ==
    /\ m \in RegistryNames
    /\ Done(get_last_modified(Cur, m),
            [NoLast EXCEPT !.op = "GetLastModified", !.arg = m], {}, {})

UpdateLastModified(m) ==
    /\ m \in RegistryNames
    /\ Done(update_last_modified(Cur, m),
            [NoLast EXCEPT !.op = "UpdateLastModified", !.arg = m, !.t = now],
            {}, {})

ClearLastModified(m) ==
    /\ m \in RegistryNames
    /\ Done(clear_last_modified(Cur, m),
            [NoLast EXCEPT !.op = "ClearLastModified", !.arg = m], {}, {})

NextLastModified ==
    \/ \E m \in RegistryNames : GetLastModified(m)
    \/ \E m \in RegistryNames : UpdateLastModified(m)
    \/ \E m \in RegistryNames : ClearLastModified(m)

SpecLastModified == Init /\ [][NextLastModified]_vars

(***************************************************************************)
(* Field construction (models.py, factory.py).  A field schema is          *)
(* [name, data_type]; a field row adds null, unique and max_length, where  *)
(* <<>> is None.  Options are a function from option names to values; a    *)
(* constructed field is [cls, opts].                                       *)
(***************************************************************************)
DataTypes == { "character", "text", "integer", "float", "boolean", "date" }

\* _AbstractFieldSchema.FIELD_TYPES / FieldFactory.DATA_TYPES
FIELD_TYPES(dt) ==
    CASE dt = "character" -> "CharField"
      [] dt = "text" -> "TextField"
      [] dt = "integer" -> "IntegerField"
      [] dt = "float" -> "FloatField"
      [] dt = "boolean" -> "BooleanField"
      [] dt = "date" -> "DateTimeField"

DEFAULT_MAX_LENGTH == 255

\* utils.default_max_length: the DEFAULT_MAX_LENGTH setting cfg, <<>> when
\* the settings do not have it.
default_max_length(cfg) == IF cfg = <<>> THEN DEFAULT_MAX_LENGTH ELSE cfg[1]

\* _AbstractFieldSchema.column_name
column_name(name) == replace(slugify(name), "-", "_")

\* _AbstractFieldSchema.as_field(**options): the constructor is called with
\* db_column and the options as keyword arguments, and Python refuses a
\* keyword that is given twice.
field_as_field(s, fs, options) ==
    IF "db_column" \in DOMAIN options
    THEN Raise(s, "TypeError")
    ELSE [s EXCEPT !.ret =
             [cls |-> FIELD_TYPES(fs.data_type),
              opts |-> ("db_column" :> column_name(fs.name)) @@ options]]

\* DynamicModelField._requires_max_length
_requires_max_length(f) == FIELD_TYPES(f.data_type) = "CharField"

\* DynamicModelField._ensure_max_length: "not self.max_length" is true of
\* None and of 0.
_ensure_max_length(f, cfg) ==
    IF f.max_length = <<>> \/ f.max_length = <<0>>
    THEN default_max_length(cfg)
    ELSE f.max_length[1]

\* An _add_max_length_option that passes the stored max_length as it is.
_add_max_length_option_stored(f, cfg, options) ==
    IF _requires_max_length(f) /\ f.max_length # <<>>
    THEN ("max_length" :> f.max_length[1]) @@ options
    ELSE options

\* DynamicModelField._add_max_length_option
_add_max_length_option(f, cfg, options) ==
    IF _requires_max_length(f)
    THEN ("max_length" :> _ensure_max_length(f, cfg)) @@ options
    ELSE options

\* DynamicModelField.as_field
as_field(s, f, cfg) ==
    field_as_field(s, f,
        _add_max_length_option(f, cfg,
            ("null" :> f.null) @@ ("unique" :> f.unique)))

\* FieldSchema.get_options of a field schema that stores the options
\* stored: the stored options, with the default max_length for a character
\* field that stores none.
get_options(fs, stored, cfg) ==
    IF FIELD_TYPES(fs.data_type) = "CharField"
       /\ "max_length" \notin DOMAIN stored
    THEN stored @@ ("max_length" :> default_max_length(cfg))
    ELSE stored

\* FieldFactory.make_field, and ModelFactory._custom_fields, which sets the
\* field as the attribute db_column of the type: the constructor gets the
\* options and nothing else, so the field's column is its db_column option
\* when it has one and the attribute's name when it has none.
make_field(s, fs, stored, cfg) ==
    [s EXCEPT !.ret =
        [cls |-> FIELD_TYPES(fs.data_type),
         opts |-> get_options(fs, stored, cfg)
                      @@ ("db_column" :> column_name(fs.name))]]

\* The field rows and option sets the construction is applied to.
FieldSchemas == [name : Names, data_type : DataTypes]
FieldRows ==
    [name : Names, data_type : DataTypes, null : BOOLEAN, unique : BOOLEAN,
     max_length : { <<>>, <<0>>, <<10>> }]
FieldOptions ==
    { ("null" :> nl) : nl \in BOOLEAN }
        \cup { ("null" :> nl) @@ ("db_column" :> <<"c">>) : nl \in BOOLEAN }

\* model_field.as_field(), with the DEFAULT_MAX_LENGTH setting cfg
AsField(f, cfg) ==
    /\ f \in FieldRows
    /\ Done(as_field(Cur, f, cfg),
            [NoLast EXCEPT !.op = "AsField", !.arg = <<f, cfg>>], {}, {})

\* field_schema.as_field(**options)
FieldAsField(fs, options) ==
    /\ fs \in FieldSchemas
    /\ Done(field_as_field(Cur, fs, options),
            [NoLast EXCEPT !.op = "FieldAsField", !.arg = <<fs, options>>],
            {}, {})

\* FieldFactory(field_schema).make_field(), set on a type by _custom_fields
MakeField(fs, options, cfg) ==
    /\ fs \in FieldSchemas
    /\ Done(make_field(Cur, fs, options, cfg),
            [NoLast EXCEPT !.op = "MakeField", !.arg = <<fs, options>>],
            {}, {})

NextField ==
    \/ \E f \in FieldRows, cfg \in { <<>>, <<64>> } : AsField(f, cfg)
    \/ \E fs \in FieldSchemas, options \in FieldOptions :
           FieldAsField(fs, options)
    \/ \E fs \in FieldSchemas, options \in FieldOptions,
          cfg \in { <<>>, <<64>> } :
           MakeField(fs, options, cfg)

SpecField == Init /\ [][NextField]_vars

\* The operations of one schema instance whose fields may have any name of
\* Cols, the names of base properties included.
NextReserved ==
    \/ \E n \in Names : New(1, n)
    \/ \E n \in Names : Save(1, n)
    \/ AsModel(1)
    \/ \E c \in Cols, nl \in Nulls, j \in 0..NFInst : AddField(1, c, nl, j)
    \/ \E c \in Cols, nl \in Nulls : UpdateField(1, c, nl)
    \/ \E c \in Cols : RemoveField(1, c)
    \/ \E t \in 1..MaxTypes : WriteRecord(t)

SpecReserved == Init /\ [][NextReserved]_vars

(***************************************************************************)
(* Two processes.  Each schema instance i is held by a process of its own; *)
(* the rows, the tables and the cache are shared.  BaseSchemaEditor.update *)
(* reads exists() and then acts on what it read, and another process may   *)
(* run between the two: a save is taken in two steps, up to exists() and   *)
(* from it.  The types a process compiles are its own; what a step does to *)
(* the tables and how it ends does not depend on the registry.             *)
(***************************************************************************)
\* _AbstractModelSchema.save up to the editor's exists(); ret is 1 when the
\* table was found.
save_to_exists(s, i, n) ==
    LET s0 == [s EXCEPT !.inst[i].name = n]
        s1 == row_save(s0, i)
        s2 == Bind(s1, LAMBDA x : schema_checker(x, i))
        s3 == Bind(s2, LAMBDA x : checker_update(x, x.inst[i].ckey, x.now))
        s4 == Bind(s3, LAMBDA x : schema_editor(x, i))
    IN  Bind(s4, LAMBDA x :
            [x EXCEPT !.ret = IF db_table_exists(x, x.inst[i].einit)
                              THEN 1 ELSE 0])

\* A save that looks once more whether the table is there before it creates
\* it.
save_from_exists_recheck(s, i, seen) ==
    LET update ==
            IF ~seen
            THEN IF db_table_exists(s, s.inst[i].einit) THEN s
                 ELSE model_editor_create(s, i)
            ELSE IF s.inst[i].einit # table_name(s.inst[i].name)
                 THEN Bind(model_editor_alter(s, i),
                           LAMBDA s2 : [s2 EXCEPT !.inst[i].einit =
                                            table_name(s2.inst[i].name)])
                 ELSE s
    IN  Bind(update, LAMBDA x : [x EXCEPT !.inst[i].prior = x.inst[i].name])

\* _AbstractModelSchema.save from the editor's exists(), which returned
\* seen.
save_from_exists(s, i, seen) ==
    LET update ==
            IF ~seen THEN model_editor_create(s, i)
            ELSE IF s.inst[i].einit # table_name(s.inst[i].name)
                 THEN Bind(model_editor_alter(s, i),
                           LAMBDA s2 : [s2 EXCEPT !.inst[i].einit =
                                            table_name(s2.inst[i].name)])
                 ELSE s
    IN  Bind(update, LAMBDA x : [x EXCEPT !.inst[i].prior = x.inst[i].name])

\* DynamicModelField.save up to the editor's exists(); ret is 1 when the
\* column was found.
field_save_to_exists(s, j) ==
    LET update(s1) ==
            checker_update(s1, s1.inst[s1.finst[j].owner].ckey, s1.now)
        s2 == Bind(_check_null_is_valid(s, j),
                   LAMBDA x : field_row_save(x, j))
        s3 == Bind(s2, LAMBDA x :
                  field_schema_editor(
                      update(schema_checker(x, x.finst[j].owner)), j))
    IN  Bind(s3, LAMBDA x :
            [x EXCEPT !.ret = IF field_editor_exists(x, j) THEN 1 ELSE 0])

\* DynamicModelField.save from the editor's exists(), which returned seen.
field_save_from_exists(s, j, seen) ==
    LET changed(s1) ==
            IF Ok(s1) /\ s1.ret = 1
            THEN Bind(field_editor_alter(s1, j),
                      LAMBDA s2 : field_set_initial(s2, j))
            ELSE s1
    IN  IF ~seen THEN field_editor_create(s, j)
        ELSE changed(field_is_changed(s, j))

Idle(i) == pend[i].kind = "none"

\* The end of a step of a save taken in two steps.
Step(s, l, mf, mr) ==
    /\ now <= MaxSteps
    /\ End(s, l, mf, mr)

\* An operation that raises before exists() returned has ended.
Pending(i, r, k, j, mut) ==
    IF Ok(r)
    THEN [pend EXCEPT ![i] = [kind |-> k, seen |-> (r.ret = 1), j |-> j,
                              mi |-> r.inst[0], fi |-> r.finst[0],
                              mut |-> mut]]
    ELSE pend

\* schema.name = n; schema.save(), up to exists()
SaveToExists(i, n) ==
    /\ Idle(i)
    /\ inst[i].st = "unsaved" \/ Live(i)
    /\ inst[i].st = "unsaved" => nextPk <= MaxPk /\ n = inst[i].name
    /\ LET r == save_to_exists(Cur, i, n)
       IN  /\ Step(r, [NoLast EXCEPT !.op = "SaveToExists", !.i = i,
                                    !.arg = n, !.pk = r.inst[i].pk], {}, {})
           /\ pend' = Pending(i, r, "model", 0,
                              IF inst[i].pk # 0 /\ rows[inst[i].pk] # n
                              THEN older_types(inst[i].pk) ELSE {})

\* schema.save(), from exists()
SaveFromExists(i) ==
    /\ pend[i].kind = "model"
    /\ Step(save_from_exists(Cur, i, pend[i].seen),
           [NoLast EXCEPT !.op = "SaveFromExists", !.i = i,
                          !.arg = inst[i].name, !.pk = inst[i].pk],
           {}, pend[i].mut)
    /\ pend' = [pend EXCEPT ![i] = NoPend]

\* schema.add_field(field, null=nl), up to exists()
AddFieldToExists(i, c, nl, j) ==
    /\ Idle(i)
    /\ Live(i)
    /\ finst[j].st = "free"
    /\ LET s0 == [Cur EXCEPT !.finst[j] =
                      [st |-> "unsaved", pk |-> inst[i].pk, col |-> c,
                       owner |-> i, null |-> nl,
                       initial_null |-> (nl = "null"),
                       ed |-> FALSE, it |-> 0]]
           r == field_save_to_exists(s0, j)
       IN  /\ Step(IF Ok(r) THEN r ELSE [r EXCEPT !.finst[j] = NoFInst],
                  [NoLast EXCEPT !.op = "AddFieldToExists", !.i = i,
                                 !.j = j, !.pk = inst[i].pk, !.col = c,
                                 !.arg = nl], {}, {})
           /\ pend' = Pending(i, r, "field", j, older_types(inst[i].pk))

\* schema.update_field(field, null=nl), up to exists()
UpdateFieldToExists(i, c, nl) ==
    /\ Idle(i)
    /\ Live(i)
    /\ frows[<<inst[i].pk, c>>] # "none"
    /\ LET s0 == [schema_get_field(Cur, i, c) EXCEPT !.finst[0].null = nl]
           r == field_save_to_exists(s0, 0)
       IN  /\ Step(r, [NoLast EXCEPT !.op = "UpdateFieldToExists", !.i = i,
                                    !.pk = inst[i].pk, !.col = c,
                                    !.arg = nl], {}, {})
           /\ pend' = Pending(i, r, "field", 0, older_types(inst[i].pk))

\* add_field or update_field, from exists()
FieldSaveFromExists(i) ==
    /\ pend[i].kind = "field"
    /\ LET j == pend[i].j
           s0 == IF j = 0
                 THEN [Cur EXCEPT !.inst[0] = pend[i].mi,
                                  !.finst[0] = pend[i].fi]
                 ELSE Cur
           r == field_save_from_exists(s0, j, pend[i].seen)
       IN  Step(IF Ok(r) \/ j = 0 THEN r
               ELSE [r EXCEPT !.finst[j] = NoFInst],
               [NoLast EXCEPT !.op = "FieldSaveFromExists", !.i = i, !.j = j,
                              !.pk = s0.finst[j].pk, !.col = s0.finst[j].col,
                              !.arg = s0.finst[j].null],
               pend[i].mut, {})
    /\ pend' = [pend EXCEPT ![i] = NoPend]

\* The saves of schemas and field rows by two processes, each taken in two
\* steps.
NextRace ==
    \/ \E i \in Insts, n \in Names : Idle(i) /\ New(i, n)
    \/ \E i \in Insts, p \in Pks : Idle(i) /\ Load(i, p)
    \/ \E i \in Insts, n \in Names : SaveToExists(i, n)
    \/ \E i \in Insts : SaveFromExists(i)
    \/ \E i \in Insts, c \in ValidCols, nl \in Nulls, j \in 0..NFInst :
         AddFieldToExists(i, c, nl, j)
    \/ \E i \in Insts, c \in ValidCols, nl \in Nulls :
         UpdateFieldToExists(i, c, nl)
    \/ \E i \in Insts : FieldSaveFromExists(i)

SpecRace == Init /\ [][NextRace]_vars

(***************************************************************************)
(* A clock of finite resolution.  timezone.now() is read by save() for the *)
(* timestamp and by the factory for _declared; an operation that starts    *)
(* within the clock's resolution of the save or as_model() before it reads *)
(* what that one read.                                                     *)
(***************************************************************************)
SameReading ==
    /\ now > 1
    /\ last.op \in { "Save", "AsModel" } /\ last.err = "none"
    /\ now' = now - 1
    /\ last' = [NoLast EXCEPT !.op = "SameReading"]
    /\ UNCHANGED << rows, nextPk, frows, tables, cache, registry, connected,
                    types, inst, finst, mutF, mutR, pend >>

\* The operations of one schema instance, under such a clock.
NextClock ==
    \/ \E n \in Names : New(1, n)
    \/ \E n \in Names : Save(1, n)
    \/ AsModel(1)
    \/ \E c \in ValidCols, nl \in Nulls : AddField(1, c, nl, 0)
    \/ SameReading

SpecClock == Init /\ [][NextClock]_vars

(***************************************************************************)
(* The names derived for two schemas.  name is a CharField that is unique  *)
(* and has no validator: every string of up to 32 characters can be the    *)
(* name of a row.  The names here begin and end with a letter.             *)
(***************************************************************************)
NameLetters == { "a", "A", "b" }
NameChars == NameLetters \cup { " ", "-", "_" }
SchemaNames ==
    { <<x>> : x \in NameLetters }
    \cup { <<x, y>> : x \in NameLetters, y \in NameLetters }
    \cup { <<x, y, z>> : x \in NameLetters, y \in NameChars,
                         z \in NameLetters }

\* The properties model_name and table_name of two schemas named n and m,
\* and the keys made of them.
DerivedNames(n, m) ==
    /\ n # m
    /\ last.op = "init"
    /\ Done([Cur EXCEPT !.ret =
                 [table |-> << table_name(n), table_name(m) >>,
                  registry |-> << registry_key(model_name(n)),
                                  registry_key(model_name(m)) >>,
                  checker |-> << _make_cache_key(model_name(n)),
                                 _make_cache_key(model_name(m)) >>,
                  cache |-> << cache_key(model_name(n)),
                               cache_key(model_name(m)) >>]],
            [NoLast EXCEPT !.op = "DerivedNames", !.arg = << n, m >>],
            {}, {})

NextNames == \E n \in SchemaNames, m \in SchemaNames : DerivedNames(n, m)

SpecNames == Init /\ [][NextNames]_vars

(***************************************************************************)
(* Properties.                                                             *)
(***************************************************************************)
HasEvent(l, e) == \E k \in 1..Len(l.ev) : l.ev[k] = e

\* The events e1 and e2 both happened, e1 before e2.
EventBefore(l, e1, e2) ==
    \E k1, k2 \in 1..Len(l.ev) : k1 < k2 /\ l.ev[k1] = e1 /\ l.ev[k2] = e2

NameTaken(n) == \E p \in Pks : rows[p] = n

\* C4: the first save of a new schema whose name is free, whose derived
\* table does not exist and whose derived type name is not registered
\* completes, inserts the row, puts the time of the save in the cache under
\* the schema's key, creates the table with the derived name and leaves a
\* type of the derived name, compiled for the new row and the new table,
\* in the registry.
C4_FirstSaveCreates ==
    [][\A i \in Insts :
        ( /\ last'.op = "Save" /\ last'.i = i
          /\ inst[i].st = "unsaved"
          /\ ~NameTaken(inst[i].name)
          /\ ~tables[table_name(inst[i].name)].exists
          /\ registry[registry_key(model_name(inst[i].name))] = 0 )
        =>
        ( /\ last'.err = "none"
          /\ rows[last'.pk] = NoName
          /\ rows'[last'.pk] = inst[i].name
          /\ cache'[_make_cache_key(model_name(inst[i].name))] = now
          /\ tables'[table_name(inst[i].name)].exists
          /\ registry'[registry_key(model_name(inst[i].name))] # 0
          /\ LET T == types'[registry'[registry_key(model_name(inst[i].name))]]
             IN  /\ T.name = model_name(inst[i].name)
                 /\ T.table = table_name(inst[i].name)
                 /\ T.pk = last'.pk )
      ]_vars

\* C4 happens: a first save has inserted a row, created a table and
\* registered a type where none was registered before.
C4_Witness ==
    /\ last.op = "Save" /\ last.err = "none"
    /\ HasEvent(last, "row_inserted")
    /\ HasEvent(last, "create_table")
    /\ HasEvent(last, "register")
    /\ ~HasEvent(last, "unregister")
    /\ rows[last.pk] = inst[last.i].name
    /\ tables[table_name(rows[last.pk])].exists

\* The key under which instance i's checker looks up the timestamp.
checker_key(i) ==
    IF inst[i].ckey # NoKey THEN inst[i].ckey
    ELSE _make_cache_key(model_name(inst[i].name))

\* C3: get_model never fails; it returns the type registered under the
\* schema's type name, and compiles nothing, exactly when there is one and
\* it is current; otherwise it compiles a new type, registers it under the
\* schema's type name and returns it.
C3_GetModelReturnsOrBuilds ==
    [][\A i \in Insts :
        (last'.op = "GetModel" /\ last'.i = i)
        =>
        LET rk == registry_key(model_name(inst[i].name))
            reg == registry[rk]
        IN  /\ last'.err = "none"
            /\ IF reg # 0 /\ is_current_model(Cur, checker_key(i), reg)
               THEN last'.ret = reg /\ types' = types
               ELSE /\ Len(types') = Len(types) + 1
                    /\ last'.ret = Len(types')
                    /\ registry'[rk] = last'.ret
      ]_vars

\* C7: a delete of a schema completes and leaves no field row of the schema.
C7_DeleteRemovesFieldRows ==
    last.op = "Delete" =>
        /\ last.err = "none"
        /\ \A c \in Cols : frows[<<last.pk, c>>] = "none"

\* C9: a delete of a field row completes: the column is dropped, then the
\* schema's timestamp is set, then the row is removed; afterwards the
\* schema's table has no such column and the row is gone.
C9_FieldDeleteCompletes ==
    last.op \in { "RemoveField", "DeleteField" } =>
        /\ last.err = "none"
        /\ EventBefore(last, "drop_column", "cache_set")
        /\ EventBefore(last, "cache_set", "field_row_deleted")
        /\ frows[<<last.pk, last.col>>] = "none"
        /\ tables[table_name(rows[last.pk])].cols[last.col] = "none"

\* C10: a save that sets null to false on a field row persisted with null
\* true (and read as such by the instance that is saved) raises
\* NullFieldChangedError and leaves the row with null true.
C10_NullToNotNullRefused ==
    [][( /\ last'.op \in { "SaveField", "UpdateField" }
         /\ last'.arg = "notnull"
         /\ frows[<<last'.pk, last'.col>>] = "null"
         /\ last'.op = "SaveField" => finst[last'.j].null = "null" )
       =>
       ( /\ last'.err = "NullFieldChangedError"
         /\ frows'[<<last'.pk, last'.col>>] = "null" )
      ]_vars

\* C5: a save of a persisted schema under a new, free name completes;
\* afterwards the table of the new name exists and the table of the old name
\* does not, and the registry has a type under the new type name and none
\* under the old one.
C5_RenameMovesTableAndType ==
    [][\A i \in Insts :
        ( /\ last'.op = "Save" /\ last'.i = i
          /\ inst[i].st = "saved"
          /\ inst[i].name = rows[inst[i].pk]
          /\ last'.arg # inst[i].name
          /\ ~NameTaken(last'.arg)
          /\ tables[table_name(inst[i].name)].exists
          /\ ~tables[table_name(last'.arg)].exists
          /\ registry[registry_key(model_name(last'.arg))] = 0 )
        =>
        ( /\ last'.err = "none"
          /\ tables'[table_name(last'.arg)].exists
          /\ ~tables'[table_name(inst[i].name)].exists
          /\ registry'[registry_key(model_name(last'.arg))] # 0
          /\ registry'[registry_key(model_name(inst[i].name))] = 0 )
      ]_vars

\* C6: a delete of a persisted schema without field rows completes;
\* afterwards the schema's table does not exist, the registry has no type
\* under its type name, the cache has no entry under its key and the row is
\* gone.
C6_DeleteRemovesAll ==
    [][\A i \in Insts :
        ( /\ last'.op = "Delete" /\ last'.i = i
          /\ inst[i].name = rows[inst[i].pk]
          /\ \A c \in Cols : frows[<<inst[i].pk, c>>] = "none" )
        =>
        ( /\ last'.err = "none"
          /\ ~tables'[table_name(inst[i].name)].exists
          /\ registry'[registry_key(model_name(inst[i].name))] = 0
          /\ cache'[_make_cache_key(model_name(inst[i].name))] = 0
          /\ rows'[inst[i].pk] = NoName )
      ]_vars

\* C8: add_field on a schema whose table lacks the column completes and the
\* table has the column, with the definition asked for; a save that changes
\* a persisted field row from null false to null true completes and the
\* column accepts NULL.
C8_FieldSaveSyncsColumn ==
    [][\A i \in Insts :
        /\ ( /\ last'.op = "AddField" /\ last'.i = i
             /\ inst[i].name = rows[inst[i].pk]
             /\ frows[<<inst[i].pk, last'.col>>] = "none"
             /\ tables[table_name(inst[i].name)].exists
             /\ tables[table_name(inst[i].name)].cols[last'.col] = "none" )
           =>
           ( /\ last'.err = "none"
             /\ tables'[table_name(inst[i].name)].cols[last'.col] = last'.arg )
        /\ ( /\ last'.op \in { "UpdateField", "SaveField" }
             /\ last'.arg = "null"
             /\ frows[<<last'.pk, last'.col>>] = "notnull"
             /\ tables[table_name(rows[last'.pk])].cols[last'.col] = "notnull" )
           =>
           ( /\ last'.err = "none"
             /\ tables'[table_name(rows[last'.pk])].cols[last'.col] = "null" )
      ]_vars

\* C2: a record saved through a type that was compiled for a schema before
\* a rename or a field save of that schema completed is refused with
\* OutdatedModelError.
C2_StaleTypeCannotWrite ==
    ( /\ last.op = "WriteRecord"
      /\ last.t \in mutF \cup mutR
      /\ rows[types[last.t].pk] # NoName )
    => last.err = "OutdatedModelError"

\* C1: every type compiled for a schema before a field save of the schema
\* completed is reported not current by its schema, as_model() on an
\* instance that holds such a type returns another type, and a delete of a
\* field row completes.
C1_FieldChangeMakesTypesStale ==
    /\ [](\A t \in mutF :
            rows[types[t].pk] # NoName
            => ~is_current_model(Cur, schema_key(Cur, t), t))
    /\ [](last.op \in { "RemoveField", "DeleteField" } => last.err = "none")
    /\ [][\A i \in Insts :
            (last'.op = "AsModel" /\ last'.i = i /\ inst[i].model \in mutF)
            => (last'.err = "none" /\ last'.ret # inst[i].model)
         ]_vars

\* C11: add_field with the name of a base property of the compiled type
\* raises InvalidFieldNameError, persists no field row and adds no column.
C11_ReservedNameRefused ==
    [][(last'.op = "AddField" /\ last'.col \in ReservedNames)
       =>
       ( /\ last'.err = "InvalidFieldNameError"
         /\ frows' = frows
         /\ tables' = tables )
      ]_vars

\* The effects of a save, by kind.
RowEvents == { "row_inserted", "row_updated", "field_row_saved" }
CompileEvents == { "unregister", "compile", "register" }
DDLEvents == { "create_table", "rename_table", "add_column", "alter_column" }
SaveOps == { "Save", "AddField", "UpdateField", "SaveField" }

\* No effect of a kind in later happens before an effect of a kind in
\* earlier.
NeverBefore(l, later, earlier) ==
    ~\E k1, k2 \in 1..Len(l.ev) :
        k1 < k2 /\ l.ev[k1] \in later /\ l.ev[k2] \in earlier

\* C12 as stated: in every save of a schema or of a field row the row is
\* persisted, then the timestamp is written, then the structural command is
\* issued, then the type is compiled and registered; no later step happens
\* before an earlier one.
C12_SaveOrderCompileLast ==
    last.op \in SaveOps =>
        /\ NeverBefore(last, { "cache_set" } \cup DDLEvents \cup CompileEvents,
                       RowEvents)
        /\ NeverBefore(last, DDLEvents \cup CompileEvents, { "cache_set" })
        /\ NeverBefore(last, CompileEvents, DDLEvents)

\* C12 amended: in every save of a schema or of a field row the row is
\* persisted, then the timestamp is written, then the type is compiled and
\* registered, then the structural command is issued with that type; no
\* later step happens before an earlier one.
C12_SaveOrderCommandLast ==
    last.op \in SaveOps =>
        /\ NeverBefore(last, { "cache_set" } \cup DDLEvents \cup CompileEvents,
                       RowEvents)
        /\ NeverBefore(last, DDLEvents \cup CompileEvents, { "cache_set" })
        /\ NeverBefore(last, DDLEvents, CompileEvents)

\* C12 happens: a save of a schema and a save of a field row with all four
\* steps.
C12_Witness ==
    /\ last.op \in { "Save", "AddField" } /\ last.err = "none"
    /\ \E e \in RowEvents : HasEvent(last, e)
    /\ HasEvent(last, "cache_set")
    /\ HasEvent(last, "compile") /\ HasEvent(last, "register")
    /\ \E e \in DDLEvents : HasEvent(last, e)

DeleteOps == { "Delete", "RemoveField", "DeleteField" }

\* C13: a DROP TABLE is issued only by a delete of a schema whose row is
\* there, and before the row is removed; a DROP COLUMN is issued only by a
\* delete of a field row (or of its schema) whose row is there, and before
\* the field row is removed; no row is removed without its command having
\* been issued first.
C13_DropBeforeRowRemoval ==
    [][ /\ HasEvent(last', "drop_table") =>
              /\ last'.op = "Delete"
              /\ rows[last'.pk] # NoName
              /\ NeverBefore(last', { "row_deleted" }, { "drop_table" })
        /\ HasEvent(last', "row_deleted") =>
              EventBefore(last', "drop_table", "row_deleted")
        /\ HasEvent(last', "drop_column") =>
              /\ last'.op \in DeleteOps
              /\ last'.op # "Delete" => frows[<<last'.pk, last'.col>>] # "none"
              /\ NeverBefore(last', { "field_row_deleted" }, { "drop_column" })
        /\ HasEvent(last', "field_row_deleted") =>
              EventBefore(last', "drop_column", "field_row_deleted")
      ]_vars

\* C13 happens: a delete of a schema has dropped the table and removed the
\* row.
C13_Witness ==
    /\ last.op = "Delete" /\ last.err = "none"
    /\ HasEvent(last, "drop_table") /\ HasEvent(last, "row_deleted")
    /\ rows[last.pk] = NoName

\* A delete of a field row has issued its DROP COLUMN.
C13_FieldDropIssued ==
    last.op \in { "RemoveField", "DeleteField" } /\ HasEvent(last, "drop_column")

\* The effects of an operation that follow its event e.
EventsAfter(l, e) ==
    { l.ev[k] : k \in { k2 \in 1..Len(l.ev) :
                          \E k1 \in 1..(k2 - 1) : l.ev[k1] = e } }

TwiceOps ==
    { "SaveUpdate", "EditorUpdateTwice", "AddFieldUpdate", "SaveFieldUpdate",
      "FieldEditorUpdateTwice" }

\* C14: an update() of an editor that directly follows an update() of the
\* same editor issues no structural command: none that the database carries
\* out and none that it refuses; for the table editor and for the column
\* editor, whatever the first call did.
C14_SecondUpdateIssuesNothing ==
    (last.op \in TwiceOps /\ HasEvent(last, "second_update")) =>
        /\ EventsAfter(last, "second_update")
               \cap (DDLEvents \cup { "drop_table", "drop_column" }) = {}
        /\ last.err # "DatabaseError"

\* C14 happens: the first update() renamed the table and a second update()
\* of the same editor followed and completed.
C14_Witness ==
    /\ last.op = "SaveUpdate" /\ last.err = "none"
    /\ EventBefore(last, "rename_table", "second_update")

\* The first update() created the table; the first update() of a column
\* editor added the column; a second update() followed.
C14_WitnessCreated ==
    /\ last.op \in { "SaveUpdate", "EditorUpdateTwice" } /\ last.err = "none"
    /\ EventBefore(last, "create_table", "second_update")

C14_WitnessColumn ==
    /\ last.op \in { "AddFieldUpdate", "FieldEditorUpdateTwice" }
    /\ last.err = "none"
    /\ EventBefore(last, "add_column", "second_update")

\* C15: as_model() on an instance of a persisted schema whose name is the
\* name of its row completes and returns a type that has a field for a
\* column exactly when the schema has a field row for the column, whose
\* name is the schema's type name and whose table is the schema's derived
\* table name.
C15_TypeMatchesSchema ==
    [][\A i \in Insts :
        ( /\ last'.op = "AsModel" /\ last'.i = i
          /\ inst[i].name = rows[inst[i].pk] )
        =>
        ( /\ last'.err = "none"
          /\ last'.ret \in 1..Len(types')
          /\ LET T == types'[last'.ret]
             IN  /\ \A c \in Cols :
                       T.fields[c] # "none" <=> frows[<<inst[i].pk, c>>] # "none"
                 /\ T.name = model_name(inst[i].name)
                 /\ T.table = table_name(inst[i].name) )
      ]_vars

\* C16: when the cache has no entry under the schema's key and a type
\* compiled for the schema is registered under the schema's type name, the
\* type is current for the schema, and get_model returns it and compiles
\* nothing.
C16_NoEntryMeansCurrent ==
    [][\A i \in Insts :
        LET reg == registry[registry_key(model_name(inst[i].name))]
        IN  ( /\ last'.op = "GetModel" /\ last'.i = i
              /\ reg # 0
              /\ types[reg].pk = inst[i].pk
              /\ cache[checker_key(i)] = 0 )
            =>
            ( /\ is_current_model(Cur, checker_key(i), reg)
              /\ last'.err = "none"
              /\ last'.ret = reg
              /\ types' = types )
      ]_vars

\* C17: a record write through the type that the as_model() directly before
\* it returned is not refused with OutdatedModelError, whether the cache has
\* an entry for the schema or not.
C17_FreshTypeCanWrite ==
    [][( /\ last.op = "AsModel" /\ last.err = "none"
         /\ last'.op = "WriteRecord" /\ last'.t = last.ret )
       => last'.err # "OutdatedModelError"
      ]_vars

\* C18: unregister_model(m) of a registered name completes and removes the
\* entry of m and no other, so that is_registered(m) is false afterwards;
\* unregister_model(m) of a name that is not registered raises LookupError
\* and leaves the registry as it was.
C18_UnregisterRemovesOrRaises ==
    [][\A m \in RegistryNames :
        (last'.op = "Unregister" /\ last'.arg = m)
        =>
        IF is_registered(Cur, m)
        THEN /\ last'.err = "none"
             /\ registry' = [registry EXCEPT ![registry_key(m)] = 0]
        ELSE /\ last'.err = "LookupError"
             /\ registry' = registry
      ]_vars

\* C18 happens: a registered type was unregistered by name, and another
\* type was left registered.
C18_Witness ==
    /\ last.op = "Unregister" /\ last.err = "none"
    /\ HasEvent(last, "unregister")
    /\ registry[registry_key(last.arg)] = 0
    /\ \E k \in RegKeys : registry[k] # 0

\* An unregister of a name that is not registered was refused.
C18_WitnessMissing ==
    last.op = "Unregister" /\ last.err = "LookupError"

\* C19: there is no entry before any update; get_last_modified returns the
\* entry under the key of its argument and changes nothing;
\* update_last_modified puts the time of the update under the key, in place
\* of the time of an earlier update, and changes no other entry;
\* clear_last_modified removes the entry and changes no other.  So a get
\* that directly follows an update of its key returns the time of that
\* update, and a get that directly follows a clear of its key returns None.
C19_GetReturnsLatestUpdate ==
    /\ [](last.op = "init" => \A k \in ModuleCacheKeys : cache[k] = 0)
    /\ [][\A m \in RegistryNames :
            /\ (last'.op = "GetLastModified" /\ last'.arg = m)
               => /\ last'.err = "none"
                  /\ last'.ret = cache[cache_key(m)]
                  /\ cache' = cache
                  /\ ( /\ last.op = "UpdateLastModified"
                       /\ cache_key(last.arg) = cache_key(m) )
                     => last'.ret = last.t
                  /\ ( /\ last.op = "ClearLastModified"
                       /\ cache_key(last.arg) = cache_key(m) )
                     => last'.ret = 0
            /\ (last'.op = "UpdateLastModified" /\ last'.arg = m)
               => /\ last'.err = "none"
                  /\ last'.t = now
                  /\ cache' = [cache EXCEPT ![cache_key(m)] = now]
            /\ (last'.op = "ClearLastModified" /\ last'.arg = m)
               => /\ last'.err = "none"
                  /\ cache' = [cache EXCEPT ![cache_key(m)] = 0]
         ]_vars

\* C19 happens: a get has returned the time of the update directly before
\* it, which was not the first operation.
C19_Witness ==
    /\ last.op = "GetLastModified"
    /\ last.ret > 1
    /\ last.ret = now - 2
    /\ last.ret = cache[cache_key(last.arg)]

C20_WitnessRenamed ==
    /\ last.op = "Save" /\ last.err = "none"
    /\ HasEvent(last, "row_updated")
    /\ EventBefore(last, "unregister", "compile")
    /\ HasEvent(last, "rename_table")

\* C21: destroy_model completes; when a type is registered for the schema
\* it disconnects the pre_save check from that type and removes the type
\* from the registry, leaving the other registrations as they are; when no
\* type is registered it changes neither the registry nor the connections.
C21_DestroyRemovesOrNothing ==
    [][\A i \in Insts :
        (last'.op = "DestroyModel" /\ last'.i = i)
        =>
        LET rk == registry_key(model_name(inst[i].prior))
            t == registry[rk]
        IN  /\ last'.err = "none"
            /\ IF t # 0
               THEN /\ registry' = [registry EXCEPT ![rk] = 0]
                    /\ connected' = connected \ { t }
               ELSE /\ registry' = registry
                    /\ connected' = connected
      ]_vars

\* destroy_model of a schema whose type is registered and connected has
\* completed: the type is no longer registered nor connected.
C21_DestroyedRegistered ==
    /\ last.op = "DestroyModel" /\ last.err = "none"
    /\ HasEvent(last, "unregister")
    /\ registry[registry_key(model_name(inst[last.i].prior))] = 0

\* C22: a field of the character kind that as_field() constructs carries a
\* max_length: the one stored on the field row, or the configured default
\* (255 when the settings have none) when the row stores none (None or 0);
\* a field of another kind carries none.
C22_CharFieldHasMaxLength ==
    last.op = "AsField" =>
        LET f == last.arg[1]
            cfg == last.arg[2]
            stored == f.max_length \notin { <<>>, <<0>> }
        IN  /\ last.err = "none"
            /\ IF last.ret.cls = "CharField"
               THEN /\ "max_length" \in DOMAIN last.ret.opts
                    /\ stored => last.ret.opts["max_length"] = f.max_length[1]
                    /\ (~stored /\ cfg = <<>>)
                           => last.ret.opts["max_length"] = 255
                    /\ (~stored /\ cfg # <<>>)
                           => last.ret.opts["max_length"] = cfg[1]
               ELSE "max_length" \notin DOMAIN last.ret.opts

\* C22 happens: a character field was constructed from a row that stores no
\* max_length, with no setting, and carries the default.
C22_Witness ==
    /\ last.op = "AsField" /\ last.err = "none"
    /\ last.arg[1].data_type = "character"
    /\ last.arg[1].max_length = <<>>
    /\ last.arg[2] = <<>>
    /\ last.ret.opts["max_length"] = 255

\* A character field was constructed from a row that stores a max_length.
C22_WitnessStored ==
    /\ last.op = "AsField" /\ last.err = "none"
    /\ last.arg[1].data_type = "character"
    /\ last.arg[1].max_length = <<10>>
    /\ last.ret.opts["max_length"] = 10

\* C23: a delete of a schema that has field rows completes, and issues one
\* DROP TABLE and no DROP COLUMN: none that the database carries out and
\* none that it refuses.
C23_DeleteDropsTableOnly ==
    [][\A i \in Insts :
        ( /\ last'.op = "Delete" /\ last'.i = i
          /\ \E c \in Cols : frows[<<inst[i].pk, c>>] # "none" )
        =>
        /\ last'.err = "none"
        /\ Cardinality({ k \in 1..Len(last'.ev) :
                            last'.ev[k] = "drop_table" }) = 1
        /\ ~HasEvent(last', "drop_column")
      ]_vars

\* C24: make_model and get_model of a schema that was never saved raise
\* UnsavedSchemaError, and leave the registry and the compiled types as they
\* are.
C24_UnsavedSchemaRefused ==
    [][\A i \in Insts :
        ( /\ last'.op \in { "MakeModel", "GetModel" } /\ last'.i = i
          /\ inst[i].st = "unsaved" )
        =>
        /\ last'.err = "UnsavedSchemaError"
        /\ registry' = registry
        /\ types' = types
      ]_vars

\* C25: a field constructed from a field schema and its stored options has
\* the options as they are stored and the column name derived from the
\* field schema's name, also when the stored options contain a column name.
C25_OptionsVerbatimColumnDerived ==
    (last.op \in { "FieldAsField", "MakeField" } /\ last.err = "none") =>
        LET fs == last.arg[1]
            options == last.arg[2]
        IN  /\ \A o \in DOMAIN options \ { "db_column" } :
                   /\ o \in DOMAIN last.ret.opts
                   /\ last.ret.opts[o] = options[o]
            /\ last.ret.opts["db_column"] = column_name(fs.name)

\* The options without a column name are passed as they are and the column
\* is the derived one.
C25_PlainOptionsPassed ==
    /\ last.op = "FieldAsField" /\ last.err = "none"
    /\ last.arg[2] = ("null" :> TRUE)
    /\ last.ret.opts["null"] = TRUE
    /\ last.ret.opts["db_column"] = column_name(last.arg[1].name)

\* C26: get_model and as_model, called while the cache's backing store is
\* unavailable on a schema that has a registered (for as_model: a kept)
\* type, complete and return a newly built type, not the type that was
\* there.
C26_OutageForcesRebuild ==
    [][\A i \in Insts :
        ( /\ last'.i = i
          /\ \/ /\ last'.op = "GetModelOutage"
                /\ registry[registry_key(model_name(inst[i].prior))] # 0
             \/ /\ last'.op = "AsModelOutage"
                /\ inst[i].model # 0 )
        =>
        /\ last'.err = "none"
        /\ Len(types') = Len(types) + 1
        /\ last'.ret = Len(types')
      ]_vars

\* During an outage that the backend turns into a miss, a type was rebuilt.
C26_RebuiltOnMiss ==
    /\ last.op \in { "GetModelOutage", "AsModelOutage" }
    /\ last.arg = "miss" /\ last.err = "none"
    /\ EventBefore(last, "unregister", "compile")
    /\ last.ret = Len(types)

\* C27: the update() of the table editor that a save runs issues at most one
\* structural command, carried out or refused by the database: CREATE TABLE
\* when no table of the editor's prior table name exists, a rename from the
\* prior name to the current one when that table exists and the names
\* differ, and none when it exists and the names are the same.  The prior
\* name of an editor that the save constructs is the current name.
C27_UpdateIssuesTheOneCommand ==
    [][\A i \in Insts :
        (last'.op = "Save" /\ last'.i = i /\ HasEvent(last', "cache_set"))
        =>
        LET cur == table_name(last'.arg)
            prior == IF inst[i].einit = NoTable THEN cur ELSE inst[i].einit
            issued == SelectSeq(last'.ev,
                          LAMBDA e : e \in DDLEvents \cup { "drop_table",
                                                            "drop_column" })
            refused == last'.err = "DatabaseError"
            only(e) == \/ issued = <<e>> /\ ~refused
                       \/ issued = <<>> /\ refused
        IN  /\ ~tables[prior].exists => only("create_table")
            /\ (tables[prior].exists /\ prior # cur) => only("rename_table")
            /\ (tables[prior].exists /\ prior = cur)
                   => (issued = <<>> /\ ~refused)
      ]_vars

\* C27 happens: a save's update() found the table of the prior name and
\* renamed it to the current name, and issued nothing else.
C27_Witness ==
    /\ last.op = "Save" /\ last.err = "none"
    /\ SelectSeq(last.ev, LAMBDA e : e \in DDLEvents) = <<"rename_table">>
    /\ inst[last.i].einit = table_name(last.arg)
    /\ tables[table_name(last.arg)].exists

\* A save's update() found the table there under an unchanged name and
\* issued nothing.
C27_WitnessNothing ==
    /\ last.op = "Save" /\ last.err = "none"
    /\ HasEvent(last, "row_updated")
    /\ SelectSeq(last.ev, LAMBDA e : e \in DDLEvents) = <<>>

\* C28: the update() of the column editor that add_field and update_field
\* run issues ADD COLUMN when the table has no such column, ALTER COLUMN
\* when it has the column and the column's definition differs from the new
\* one, and no command when the two definitions are equal.
C28_FieldUpdateIssuesByDefinition ==
    [][\A i \in Insts :
        ( /\ last'.op \in { "AddField", "UpdateField" } /\ last'.i = i
          /\ inst[i].name = rows[inst[i].pk]
          /\ last'.err = "none" )
        =>
        LET tn == table_name(inst[i].name)
            old == tables[tn].cols[last'.col]
            new == last'.arg
            issued == SelectSeq(last'.ev, LAMBDA e : e \in DDLEvents)
        IN  /\ old = "none" => issued = <<"add_column">>
            /\ (old # "none" /\ old # new) => issued = <<"alter_column">>
            /\ (old # "none" /\ old = new) => issued = <<>>
      ]_vars

\* add_field on a table without the column has issued ADD COLUMN.
C28_ColumnAdded ==
    /\ last.op = "AddField" /\ last.err = "none"
    /\ SelectSeq(last.ev, LAMBDA e : e \in DDLEvents) = <<"add_column">>

\* C29: when a save applies a rename, the prior table name its editor's
\* update() compares against is the table name of the name the row had
\* before the save; when a save of a field row applies a change of null,
\* the prior field its editor's update() compares against has the
\* definition the row had before the save.
C29_PriorShapeIsBeforeEdit ==
    [][/\ \A i \in Insts :
            ( /\ last'.op = "Save" /\ last'.i = i /\ last'.err = "none"
              /\ inst[i].pk # 0 /\ rows[inst[i].pk] # last'.arg )
            =>
            LET prior == IF inst[i].einit = NoTable
                         THEN table_name(last'.arg) ELSE inst[i].einit
            IN  prior = table_name(rows[inst[i].pk])
       /\ \A j \in FInsts :
            ( /\ last'.op = "SaveField" /\ last'.j = j /\ last'.err = "none"
              /\ frows[<<finst[j].pk, finst[j].col>>] # last'.arg )
            =>
            LET it == IF finst[j].ed THEN finst[j].it ELSE finst'[j].it
            IN  types'[it].fields[finst[j].col]
                    = frows[<<finst[j].pk, finst[j].col>>]
      ]_vars

\* A rename was saved through the instance that had saved the prior name:
\* its editor held the prior table name.
C29_EditorHeldPriorName ==
    /\ last.op = "Save" /\ last.err = "none"
    /\ HasEvent(last, "rename_table")

\* C30: no save takes the persisted null of a field row from true to false.
C30_PersistedNullStays ==
    [][\A k \in Pks \X Cols :
        (frows[k] = "null" /\ last'.op \in SaveOps) => frows'[k] # "notnull"
      ]_vars

\* A save that sets null to false on an instance read from a row whose null
\* is true was refused.
C30_LoadedInstanceRefused ==
    /\ last.op = "UpdateField" /\ last.arg = "notnull"
    /\ last.err = "NullFieldChangedError"
    /\ frows[<<last.pk, last.col>>] = "null"

\* The tables t are those of the schema rows r: a table exists under a name
\* exactly when a row's derived table name is that name.
TablesMatchRows(r, t) ==
    \A tn \in TableNames :
        t[tn].exists <=> \E p \in Pks : r[p] # NoName /\ table_name(r[p]) = tn

\* C31: a completed create, rename or delete of a schema that starts with a
\* table exactly for each persisted schema, under its current derived table
\* name, ends so: the new schema has its table, the renamed one has it under
\* the new name only, the deleted one has none.
C31_TableIffSchema ==
    [][( /\ TablesMatchRows(rows, tables)
         /\ last'.op \in { "Save", "Delete" }
         /\ last'.err = "none" )
       => TablesMatchRows(rows', tables')
      ]_vars

\* A rename through the instance that created the schema has moved the
\* table: the tables are those of the rows.
C31_RenamedInPlace ==
    /\ last.op = "Save" /\ last.err = "none"
    /\ HasEvent(last, "rename_table")
    /\ TablesMatchRows(rows, tables)

\* The registry g holds, of the types ts, one at most for each schema row of
\* r, under the row's type name, and none for a schema that has no row.
RegistryMatchesRows(r, g, ts) ==
    /\ \A k \in RegKeys :
          g[k] # 0 =>
              /\ ts[g[k]].pk # 0
              /\ r[ts[g[k]].pk] # NoName
              /\ ts[g[k]].name = model_name(r[ts[g[k]].pk])
    /\ \A p \in Pks :
          Cardinality({ k \in RegKeys : g[k] # 0 /\ ts[g[k]].pk = p }) <= 1

\* C32: a completed save, rename, field change, as_model() or delete that
\* starts with a registry of one type at most for each persisted schema,
\* under the schema's current type name, ends so; and as_model() does not
\* fail.
C32_OneTypePerSchema ==
    [][/\ ( /\ RegistryMatchesRows(rows, registry, types)
            /\ last'.op \in { "Save", "AddField", "UpdateField", "RemoveField",
                              "SaveField", "DeleteField", "AsModel", "Delete" }
            /\ last'.err = "none" )
          => RegistryMatchesRows(rows', registry', types')
       /\ last'.op = "AsModel" => last'.err = "none"
      ]_vars

\* A rename through the instance that saved the prior name has replaced the
\* registered type by one under the new type name.
C32_RenameSuperseded ==
    /\ last.op = "Save" /\ last.err = "none"
    /\ HasEvent(last, "rename_table")
    /\ EventBefore(last, "unregister", "register")
    /\ RegistryMatchesRows(rows, registry, types)

\* C33: the cache being shared, when a rename of a schema or a save of one
\* of its field rows completes through one schema instance, every type that
\* was compiled before for the schema and belongs to another schema
\* instance (another process's) is reported not current by its own schema
\* instance afterwards, whatever name either instance had when its cache
\* key was made.
C33_WriteStalesOtherProcess ==
    [][\A i \in Insts :
        ( /\ last'.op \in { "Save", "AddField", "UpdateField" }
          /\ last'.i = i /\ last'.err = "none"
          /\ inst[i].pk # 0
          /\ last'.op = "Save" => rows[inst[i].pk] # last'.arg )
        =>
        LET post == [cache |-> cache', types |-> types', inst |-> inst']
        IN  \A t \in 1..Len(types) :
                (types[t].pk = inst[i].pk /\ types[t].owner \notin { 0, i })
                => ~is_current_model(post, schema_key(post, t), t)
      ]_vars

\* A field save through one instance has made a type of another instance
\* of the schema stale: both instances made their cache key from the same
\* name.
C33_SameKeyStales ==
    /\ last.op = "AddField" /\ last.err = "none"
    /\ \E t \in 1..Len(types) :
          /\ types[t].pk = last.pk /\ types[t].owner \notin { 0, last.i }
          /\ types[t].declared < now - 1
          /\ ~is_current_model(Cur, schema_key(Cur, t), t)

\* C34: an as_model() that finds the instance's type stale builds a new
\* type, and the new type's declared-at stamp is not before the schema's
\* last-modified stamp; an as_model() that directly follows an as_model()
\* of the same instance returns the same type and builds nothing.
C34_AsModelRebuildsOnceThenKeeps ==
    [][\A i \in Insts :
        (last'.op = "AsModel" /\ last'.i = i /\ last'.err = "none")
        =>
        /\ ( inst[i].model # 0
             /\ ~is_current_model(Cur, schema_key(Cur, inst[i].model),
                                  inst[i].model) )
           => /\ last'.ret = Len(types) + 1
              /\ HasEvent(last', "compile")
              /\ types'[last'.ret].declared
                   >= cache'[_make_cache_key(model_name(inst[i].name))]
        /\ (last.op = "AsModel" /\ last.i = i /\ last.err = "none")
           => /\ last'.ret = last.ret
              /\ ~HasEvent(last', "compile")
      ]_vars

\* as_model() has rebuilt a stale type of its instance; as_model() has
\* returned, without building, the type compiled two operations before.
C34_RebuiltStale ==
    /\ last.op = "AsModel" /\ last.err = "none"
    /\ HasEvent(last, "compile")
    /\ \E t \in 1..Len(types) - 1 :
          /\ types[t].pk = last.pk /\ types[t].owner = last.i
          /\ t \in mutF

C34_SecondKept ==
    /\ last.op = "AsModel" /\ last.err = "none"
    /\ ~HasEvent(last, "compile")
    /\ last.ret = Len(types) /\ types[last.ret].declared = now - 2

\* The table of the field save process i is in: the one its field row
\* instance's model names.
PendTable(i) ==
    LET f == IF pend[i].j = 0 THEN pend[i].fi ELSE finst[pend[i].j]
    IN  table_name(IF f.owner = 0 THEN pend[i].mi.name
                   ELSE inst[f.owner].name)

\* C35: when a process's update() found the table (the column of an
\* existing table) absent and goes on to create it, then afterwards the
\* table (column) exists; when another process created it in between, this
\* process's create is refused by the database, the DatabaseError ends its
\* save and the tables are as the other process left them; otherwise the
\* create is issued and the save ends without an error.
C35_RaceCreatesOnce ==
    [][\A i \in Insts :
        /\ ( /\ last'.op = "SaveFromExists" /\ last'.i = i
             /\ ~pend[i].seen )
           => LET tn == table_name(inst[i].name)
              IN  /\ tables'[tn].exists
                  /\ IF tables[tn].exists
                     THEN /\ last'.err = "DatabaseError"
                          /\ tables' = tables
                     ELSE /\ last'.err = "none"
                          /\ HasEvent(last', "create_table")
        /\ ( /\ last'.op = "FieldSaveFromExists" /\ last'.i = i
             /\ ~pend[i].seen
             /\ tables[PendTable(i)].exists )
           => LET tn == PendTable(i)
                  c == last'.col
              IN  /\ tables'[tn].cols[c] # "none"
                  /\ IF tables[tn].cols[c] # "none"
                     THEN /\ last'.err = "DatabaseError"
                          /\ tables' = tables
                     ELSE /\ last'.err = "none"
                          /\ HasEvent(last', "add_column")
      ]_vars

\* Two processes found the same table absent, one created it and the
\* other's create was refused.
C35_LosingTableCreate ==
    /\ last.op = "SaveFromExists" /\ last.err = "DatabaseError"
    /\ \E i \in Insts :
          /\ i # last.i /\ inst[i].pk = last.pk /\ Idle(i)
          /\ inst[i].name = inst[last.i].name
          /\ tables[table_name(inst[i].name)].exists

\* The same for a column, which the field save of the other process added.
C35_LosingColumnCreate ==
    /\ last.op = "FieldSaveFromExists" /\ last.err = "DatabaseError"
    /\ mutF # {}
    /\ \E i \in Insts :
          /\ i # last.i /\ inst[i].pk = last.pk /\ Live(i)
          /\ rows[last.pk] = inst[i].name
          /\ tables[table_name(inst[i].name)].cols[last.col] # "none"

\* C36: a delete of a schema or of a field row that ends with the
\* DatabaseError of a refused DROP leaves the rows, the registry and the
\* cache as they were before the delete.
C36_RefusedDropLeavesAll ==
    [][( /\ last'.op \in { "Delete", "DeleteField", "RemoveField" }
         /\ last'.err = "DatabaseError" )
       => /\ rows' = rows
          /\ frows' = frows
          /\ registry' = registry
          /\ cache' = cache
      ]_vars

\* A refused DROP has ended a delete and rows, registry and cache are as
\* before: the type whose table was to be dropped is the registered one.
C36_RefusedAndUntouched ==
    /\ last.op \in { "Delete", "DeleteField", "RemoveField" }
    /\ last.err = "DatabaseError"
    /\ ~HasEvent(last, "compile")
    /\ ~HasEvent(last, "cache_delete")
    /\ ~HasEvent(last, "unregister")

\* C37: a type compiled in an operation before the one that renamed its
\* schema or saved a field row of it is not reported current by its schema,
\* whatever the clock read in the two operations.
C37_EqualStampIsStale ==
    \A t \in mutF \cup mutR :
        rows[types[t].pk] # NoName
        => ~is_current_model(Cur, schema_key(Cur, t), t)

\* A type compiled before a field save is reported not current: the clock
\* advanced between the two.
C37_LaterStampStales ==
    \E t \in mutF :
        /\ rows[types[t].pk] # NoName
        /\ get_last(Cur, schema_key(Cur, t)) > types[t].declared
        /\ ~is_current_model(Cur, schema_key(Cur, t), t)

\* C38: two schemas with different names have different table names,
\* different registry keys and different cache keys (the checker's and
\* cache.py's).
C38_DistinctNamesDistinctKeys ==
    last.op = "DerivedNames" =>
        /\ last.ret.table[1] # last.ret.table[2]
        /\ last.ret.registry[1] # last.ret.registry[2]
        /\ last.ret.checker[1] # last.ret.checker[2]
        /\ last.ret.cache[1] # last.ret.cache[2]

\* Two names with all their keys different.
C38_KeysDiffer ==
    /\ last.op = "DerivedNames"
    /\ last.ret.table[1] # last.ret.table[2]
    /\ last.ret.registry[1] # last.ret.registry[2]
    /\ last.ret.checker[1] # last.ret.checker[2]
    /\ last.ret.cache[1] # last.ret.cache[2]

\* C39: a save of a field row that is invalid, because it ends with
\* NullFieldChangedError or because the field's name is the name of a base
\* property of the compiled type, leaves the field rows, the cache, the
\* registry and the tables as they were and issues no structural command.
C39_InvalidFieldSaveChangesNothing ==
    [][( /\ last'.op \in { "AddField", "UpdateField", "SaveField" }
         /\ \/ last'.err = "NullFieldChangedError"
            \/ last'.col \in ReservedNames )
       => /\ frows' = frows
          /\ cache' = cache
          /\ registry' = registry
          /\ tables' = tables
          /\ \A e \in DDLEvents : ~HasEvent(last', e)
      ]_vars

\* A save that sets null to false was refused and did nothing.
C39_NullDowngradeDidNothing ==
    /\ last.op = "UpdateField" /\ last.arg = "notnull"
    /\ last.err = "NullFieldChangedError"
    /\ last.ev = <<>>
    /\ cache[_make_cache_key(model_name(rows[last.pk]))] < now - 1

\* The operations on a schema or on a field row of it.
SchemaOps ==
    { "Save", "Delete", "AddField", "UpdateField", "RemoveField",
      "SaveField", "DeleteField" }

\* C40: an operation on schema A or on a field row of A leaves, for every
\* other persisted schema B whose type name is not one A has before or
\* after, B's row, B's timestamp in the cache, B's entry in the registry
\* and B's table as they were.
C40_OtherSchemaUntouched ==
    [][\A pa \in Pks, pb \in Pks :
        ( /\ last'.op \in SchemaOps /\ last'.pk = pa
          /\ pb # pa /\ rows[pb] # NoName
          /\ \A n \in { rows[pa], rows'[pa] } \ { NoName } :
                model_name(n) # model_name(rows[pb]) )
        => LET mb == model_name(rows[pb])
               tb == table_name(rows[pb])
           IN  /\ rows'[pb] = rows[pb]
               /\ cache'[_make_cache_key(mb)] = cache[_make_cache_key(mb)]
               /\ registry'[registry_key(mb)] = registry[registry_key(mb)]
               /\ tables'[tb] = tables[tb]
      ]_vars

\* A field save under one schema completed while another schema with its
\* own table and timestamp was there.
C40_FieldSaveBesideOther ==
    /\ last.op = "AddField" /\ last.err = "none"
    /\ \E pb \in Pks :
          /\ pb # last.pk /\ rows[pb] # NoName
          /\ model_name(rows[pb]) # model_name(rows[last.pk])
          /\ tables[table_name(rows[pb])].exists
          /\ tables[table_name(rows[pb])].cols[last.col] = "none"
          /\ cache[_make_cache_key(model_name(rows[pb]))] \notin { 0, now - 1 }

====
